---------------------------- MODULE Spec2Model ----------------------------
(***************************************************************************)
(* AccessibilityValidator (src/AccessibilityValidator.ts): one validator   *)
(* instance, the document it audits, the rule engine it awaits and the     *)
(* host's timers.                                                          *)
(*                                                                         *)
(* The document is a fixed tree of elements; what varies is the validator's*)
(* configuration, its per-element state, the outline/badge/popup it has    *)
(* put on elements, its audits in flight and its debounce timers.          *)
(* Time is counted in ticks of 100 ms.                                     *)
(***************************************************************************)
EXTENDS Integers, Sequences, FiniteSets, TLC

(***************************************************************************)
(* Bounds of the model.                                                    *)
(***************************************************************************)
MaxAudits == 2        \* recheckAll calls in flight at once
MaxRetriesBound == 1  \* largest maxRetries a configuration carries
MaxSelectors == 2     \* longest widgetSelectors list
MaxTimers == 2        \* host timers that can be pending at once
MaxViolations == 2    \* violations in one engine result
MaxOrphaned == 1      \* outside-click handlers of removed popups that are counted

(***************************************************************************)
(* The host document: body > (A > (a1, N), B > b1, x).                     *)
(* A and B carry class card-video, N (nested in A) carries class hero.     *)
(***************************************************************************)
Elems == {"A", "a1", "N", "B", "b1", "x"}

NoElem == "null"

DocOrder == <<"A", "a1", "N", "B", "b1", "x">>

Parent(e) ==
    CASE e = "a1" -> "A"
      [] e = "N"  -> "A"
      [] e = "b1" -> "B"
      [] OTHER    -> NoElem

Selectors == {".card-video", ".hero", ".widget"}

\* element.matches(selector); no element carries class widget
ElementMatches(e, s) ==
    \/ s = ".card-video" /\ e \in {"A", "B"}
    \/ s = ".hero" /\ e = "N"

RECURSIVE Contains(_, _)
\* Node.contains: w is e or an ancestor of e
Contains(w, e) ==
    IF e = NoElem THEN FALSE
    ELSE IF e = w THEN TRUE
    ELSE Contains(w, Parent(e))

\* the index of e in document order
DocIndex(e) == CHOOSE i \in 1..Len(DocOrder) : DocOrder[i] = e

(***************************************************************************)
(* Affected-node descriptors of the engine: node.target joined into a      *)
(* selector.  "img" matches a1 and b1, "#gone" matches nothing, and an     *)
(* absent target is "".                                                    *)
(***************************************************************************)
Descriptors == {"#a1", "#N", "#b1", "#x", "img", "#gone", ""}

DescriptorMatches(d) ==
    CASE d = "#a1" -> {"a1"}
      [] d = "#N"  -> {"N"}
      [] d = "#b1" -> {"b1"}
      [] d = "#x"  -> {"x"}
      [] d = "img" -> {"a1", "b1"}
      [] OTHER     -> {}

\* document.querySelector: the first match in document order, or null
QuerySelector(d) ==
    IF DescriptorMatches(d) = {} THEN NoElem
    ELSE CHOOSE e \in DescriptorMatches(d) :
            \A f \in DescriptorMatches(d) : DocIndex(e) <= DocIndex(f)

\* node.target ? document.querySelector(node.target.join(' ')) : null
ResolveNode(d) == IF d = "" THEN NoElem ELSE QuerySelector(d)

RuleIds == {"image-alt", "link-name"}

\* the node lists a violation can carry
NodeLists ==
    { <<"#a1">>, <<"#N">>, <<"#b1">>, <<"#x">>, <<"#gone">>, <<"">>, <<"img">>,
      <<"#a1", "#b1">>, <<"#gone", "#b1">>, <<"#x", "#N">> }

Violation(id, nodes) == [id |-> id, nodes |-> nodes]

\* engine results: at most MaxViolations violations, one per rule
EngineResults ==
    { vs \in UNION { [1..n -> [id : RuleIds, nodes : NodeLists]] : n \in 0..MaxViolations } :
        \A i, j \in DOMAIN vs : i # j => vs[i].id # vs[j].id }

\* a few of them: none; one in A; one in N (nested in A) and one in B;
\* two in A of which one is in B too; one that resolves to no element;
\* another one in A
SomeEngineResults ==
    { <<>>,
      << Violation("image-alt", <<"#a1">>) >>,
      << Violation("image-alt", <<"#N">>), Violation("link-name", <<"#b1">>) >>,
      << Violation("image-alt", <<"#a1", "#b1">>), Violation("link-name", <<"#a1">>) >>,
      << Violation("link-name", <<"#gone">>) >>,
      << Violation("link-name", <<"#a1">>) >> }


(***************************************************************************)
(* Configuration.  An optional list field is a record that says whether    *)
(* the field is defined.                                                   *)
(***************************************************************************)
Undefined == [defined |-> FALSE, values |-> <<>>]

Some(v) == [defined |-> TRUE, values |-> v]

DefaultAxeRules == Some(<<>>)

DefaultCmsEvents ==
    Some(<< "sf:contentModified", "sf:widgetUpdated", "sf:propertyChanged",
            "sf:designerClosed", "sf:contentSaved" >>)

DefaultDebounceDelay == 3   \* 300 ms

DefaultMaxRetries == 1

CmsEventDelay == 5          \* debounceRecheck(500)

\* mergeConfig: defaults, overridden by the user's fields; axeRules and
\* cmsEvents fall back to the default when the user's value is falsy
\* (undefined)
MergeConfig(userConfig) ==
    [ widgetSelectors        |-> userConfig.widgetSelectors,
      axeRules               |-> IF userConfig.axeRules.defined
                                   THEN userConfig.axeRules
                                   ELSE DefaultAxeRules,
      axeTags                |-> userConfig.axeTags,
      debounceDelay          |-> userConfig.debounceDelay,
      enableMutationObserver |-> userConfig.enableMutationObserver,
      maxRetries             |-> userConfig.maxRetries,
      uiClasses              |-> userConfig.uiClasses,
      cmsEvents              |-> IF userConfig.cmsEvents.defined
                                   THEN userConfig.cmsEvents
                                   ELSE DefaultCmsEvents ]

\* selector lists of at most n selectors
SelectorLists(n) == UNION { [1..k -> Selectors] : k \in 0..n }

\* isTargetWidget: element matches some configured selector
IsTargetWidget(sels, e) == \E i \in DOMAIN sels : ElementMatches(e, sels[i])

\* containsWidget: some configured selector matches a descendant of e
ContainsWidget(sels, e) ==
    \E i \in DOMAIN sels : \E d \in Elems :
        d # e /\ Contains(e, d) /\ ElementMatches(d, sels[i])

\* isInsideWidget: element.closest(selector) finds e or an ancestor of e
IsInsideWidget(sels, e) ==
    \E i \in DOMAIN sels : \E w \in Elems :
        Contains(w, e) /\ ElementMatches(w, sels[i])

\* getCombinedSelector: the selectors joined by ', ' ("" for an empty list)
GetCombinedSelector(sels) == sels

\* document.querySelectorAll throws a SyntaxError on the empty selector
QueryThrows(sels) == Len(GetCombinedSelector(sels)) = 0

\* getAllWidgets: the elements matching the combined selector
GetAllWidgets(sels) == { e \in Elems : IsTargetWidget(sels, e) }

(***************************************************************************)
(* Per-element state and UI.                                               *)
(***************************************************************************)
NoState == [set |-> FALSE, lastViolationCount |-> -1, hasUI |-> FALSE]

\* getWidgetState: the stored entry, or { lastViolationCount: -1, hasUI: false }
GetWidgetState(entry) ==
    IF entry.set
      THEN [lastViolationCount |-> entry.lastViolationCount, hasUI |-> entry.hasUI]
      ELSE [lastViolationCount |-> -1, hasUI |-> FALSE]

\* setWidgetState that stores the count and leaves hasUI at its default
SetWidgetState_CountOnly(count, hasUI) ==
    [set |-> TRUE, lastViolationCount |-> count, hasUI |-> FALSE]

\* setWidgetState with both fields given
SetWidgetState(count, hasUI) ==
    [set |-> TRUE, lastViolationCount |-> count, hasUI |-> hasUI]

NoUI == [outline |-> FALSE, badges |-> <<>>, popups |-> <<>>]

\* createBadge that always writes the plural
CreateBadge_AlwaysPlural(violationCount) ==
    [count |-> violationCount, noun |-> "issues", expanded |-> FALSE]

\* createBadge: "<count> issue" for one violation, "<count> issues" otherwise
CreateBadge(violationCount) ==
    [ count |-> violationCount,
      noun  |-> IF violationCount = 1 THEN "issue" ELSE "issues",
      expanded |-> FALSE ]

\* formatViolation: the list item of a violation, identified by its rule id
FormatViolation(violation) == violation.id

\* createPopup: hidden, one list item per violation
CreatePopup(violations) ==
    [ hidden |-> TRUE,
      items  |-> [i \in DOMAIN violations |-> FormatViolation(violations[i])] ]

\* what shows of the UI u of an element, with or without the stylesheet: the
\* outline is a rule of the stylesheet; a badge is a button with its text and
\* no hidden attribute, which the stylesheet places and colours; a popup
\* shows unless it has the hidden attribute
Displayed(u, style) ==
    [ outline |-> u.outline /\ style,
      badges  |-> Len(u.badges),
      popups  |-> Cardinality({ p \in DOMAIN u.popups : ~u.popups[p].hidden }) ]

\* clearWidgetUI that removes the badges and leaves the popups
ClearWidgetUI_BadgesOnly(u) ==
    [ ui |-> [outline |-> FALSE, badges |-> <<>>, popups |-> u.popups],
      st |-> SetWidgetState(0, FALSE) ]

\* clearWidgetUI: outline class off, every badge and popup child removed,
\* state set to { hasUI: false, lastViolationCount: 0 }
ClearWidgetUI(u) ==
    [ ui |-> [outline |-> FALSE, badges |-> <<>>, popups |-> <<>>],
      st |-> SetWidgetState(0, FALSE) ]

\* renderWidgetUI that returns at once when there is no violation
RenderWidgetUI_SkipsEmpty(violations, u, st) ==
    LET violationCount == Len(violations)
    IN  IF violationCount = 0
          THEN [ui |-> u, st |-> st]
          ELSE [ ui |-> [ outline |-> TRUE,
                          badges  |-> <<CreateBadge(violationCount)>>,
                          popups  |-> <<CreatePopup(violations)>> ],
                 st |-> SetWidgetState(violationCount, TRUE) ]

\* renderWidgetUI without the test that skips an unchanged count
RenderWidgetUI_NoSkip(violations, u, st) ==
    LET violationCount == Len(violations)
    IN  IF violationCount = 0
          THEN ClearWidgetUI(u)
          ELSE [ ui |-> [ outline |-> TRUE,
                          badges  |-> <<CreateBadge(violationCount)>>,
                          popups  |-> <<CreatePopup(violations)>> ],
                 st |-> SetWidgetState(violationCount, TRUE) ]

\* renderWidgetUI that adds badge and popup to what the widget carries
RenderWidgetUI_NoClear(violations, u, st) ==
    LET currentState   == GetWidgetState(st)
        violationCount == Len(violations)
    IN  IF /\ currentState.lastViolationCount = violationCount
           /\ currentState.hasUI = (violationCount > 0)
          THEN [ui |-> u, st |-> st]
        ELSE IF violationCount = 0
          THEN ClearWidgetUI(u)
        ELSE [ ui |-> [ outline |-> TRUE,
                        badges  |-> Append(u.badges, CreateBadge(violationCount)),
                        popups  |-> Append(u.popups, CreatePopup(violations)) ],
               st |-> SetWidgetState(violationCount, TRUE) ]

\* renderWidgetUI(widget, violations) on a widget with UI u and entry st
RenderWidgetUI(violations, u, st) ==
    LET currentState   == GetWidgetState(st)
        violationCount == Len(violations)
        cleared        == ClearWidgetUI(u)
    IN  IF /\ currentState.lastViolationCount = violationCount
           /\ currentState.hasUI = (violationCount > 0)
          THEN [ui |-> u, st |-> st]
        ELSE IF violationCount = 0
          THEN cleared
        ELSE [ ui |-> [ outline |-> TRUE,
                        badges  |-> Append(cleared.ui.badges, CreateBadge(violationCount)),
                        popups  |-> Append(cleared.ui.popups, CreatePopup(violations)) ],
               st |-> SetWidgetState(violationCount, TRUE) ]

\* a mapping that gives a violation without a live node to every widget
WidgetViolations_KeepsUnresolved(widget, violations) ==
    SelectSeq(violations,
              LAMBDA violation :
                  \/ \A n \in DOMAIN violation.nodes :
                        ResolveNode(violation.nodes[n]) = NoElem
                  \/ \E n \in DOMAIN violation.nodes :
                        LET element == ResolveNode(violation.nodes[n])
                        IN  element # NoElem /\ Contains(widget, element))

\* a mapping that looks at the first affected node only
WidgetViolations_FirstNode(widget, violations) ==
    SelectSeq(violations,
              LAMBDA violation :
                  LET element == ResolveNode(violation.nodes[1])
                  IN  element # NoElem /\ Contains(widget, element))

\* the violations of an engine result that belong to a widget
WidgetViolations(widget, violations) ==
    SelectSeq(violations,
              LAMBDA violation :
                  \E n \in DOMAIN violation.nodes :
                      LET element == ResolveNode(violation.nodes[n])
                      IN  element # NoElem /\ Contains(widget, element))

\* the runOnly restriction of an engine call
NoRunOnly == [present |-> FALSE, type |-> "", values |-> <<>>]

\* options that let the tags win over the rules
BuildAxeOptions_TagsFirst(cfg) ==
    IF cfg.axeTags.defined /\ Len(cfg.axeTags.values) > 0
      THEN [present |-> TRUE, type |-> "tag", values |-> cfg.axeTags.values]
    ELSE IF cfg.axeRules.defined /\ Len(cfg.axeRules.values) > 0
      THEN [present |-> TRUE, type |-> "rule", values |-> cfg.axeRules.values]
    ELSE [present |-> FALSE, type |-> "", values |-> <<>>]

\* axeOptions.runOnly as recheckAll builds it
BuildAxeOptions(cfg) ==
    IF cfg.axeRules.defined /\ Len(cfg.axeRules.values) > 0
      THEN [present |-> TRUE, type |-> "rule", values |-> cfg.axeRules.values]
    ELSE IF cfg.axeTags.defined /\ Len(cfg.axeTags.values) > 0
      THEN [present |-> TRUE, type |-> "tag", values |-> cfg.axeTags.values]
    ELSE NoRunOnly


(***************************************************************************)
(* The class names of the validator's UI, and the UI an earlier class set  *)
(* left on an element.                                                     *)
(***************************************************************************)
DefaultUIClasses ==
    [ OUTLINE |-> "wa11y-outline", BADGE |-> "wa11y-badge",
      POPUP |-> "wa11y-popup", CLOSE |-> "wa11y-close" ]

\* createUIClasses: the defaults, overridden by the keys of config.uiClasses
CreateUIClasses(cfg) ==
    LET overrides == IF cfg.uiClasses.defined THEN cfg.uiClasses.values ELSE <<>>
        Pick(k)   == IF k \in DOMAIN overrides THEN overrides[k] ELSE DefaultUIClasses[k]
    IN  [ OUTLINE |-> Pick("OUTLINE"), BADGE |-> Pick("BADGE"),
          POPUP |-> Pick("POPUP"), CLOSE |-> Pick("CLOSE") ]

\* what an element carries under class names that are not the current ones:
\* outline classes, badges and popups, each with the class it was made with
\* (a popup also with whether its outside-click handler is on the document)
NoStale == [outlines |-> {}, badges |-> <<>>, popups |-> <<>>]

TagBadges(badges, cls) ==
    [i \in DOMAIN badges |->
        [cls |-> cls, count |-> badges[i].count, noun |-> badges[i].noun,
         expanded |-> badges[i].expanded]]

UntagBadges(badges) ==
    [i \in DOMAIN badges |->
        [count |-> badges[i].count, noun |-> badges[i].noun,
         expanded |-> badges[i].expanded]]

TagPopups(popups, cls, handler) ==
    [i \in DOMAIN popups |->
        [cls |-> cls, hidden |-> popups[i].hidden, items |-> popups[i].items,
         handler |-> handler]]

UntagPopups(popups) ==
    [i \in DOMAIN popups |-> [hidden |-> popups[i].hidden, items |-> popups[i].items]]

\* the element's UI as the selectors of the class set new find it, after the
\* class set was old: what carries a class that changed is no longer found,
\* what carries the class that is now current is found again
UIUnder(u, s, old, new) ==
    [ outline |-> IF old.OUTLINE = new.OUTLINE THEN u.outline
                  ELSE new.OUTLINE \in s.outlines,
      badges  |-> IF old.BADGE = new.BADGE THEN u.badges
                  ELSE UntagBadges(SelectSeq(s.badges, LAMBDA b : b.cls = new.BADGE)),
      popups  |-> IF old.POPUP = new.POPUP THEN u.popups
                  ELSE UntagPopups(SelectSeq(s.popups, LAMBDA q : q.cls = new.POPUP)) ]

StaleUnder(u, s, attached, old, new) ==
    [ outlines |-> IF old.OUTLINE = new.OUTLINE THEN s.outlines
                   ELSE (s.outlines \ {new.OUTLINE})
                          \cup (IF u.outline THEN {old.OUTLINE} ELSE {}),
      badges   |-> IF old.BADGE = new.BADGE THEN s.badges
                   ELSE SelectSeq(s.badges, LAMBDA b : b.cls # new.BADGE)
                          \o TagBadges(u.badges, old.BADGE),
      popups   |-> IF old.POPUP = new.POPUP THEN s.popups
                   ELSE SelectSeq(s.popups, LAMBDA q : q.cls # new.POPUP)
                          \o TagPopups(u.popups, old.POPUP, attached) ]

\* whether the outside-click handler of the popup now found on the element is
\* on the document
AttachedUnder(s, attached, old, new) ==
    IF old.POPUP = new.POPUP THEN attached
    ELSE \E i \in DOMAIN s.popups : s.popups[i].cls = new.POPUP /\ s.popups[i].handler

(***************************************************************************)
(* State.                                                                  *)
(***************************************************************************)
VARIABLES
    config,            \* this.config
    widgetCache,       \* this.widgetCache: element -> stored state
    ui,                \* per element: outline class, badge and popup children
    styleInjected,     \* the <style id="wa11y-style"> element is in the document
    mutationObserver,  \* this.mutationObserver is connected (not null)
    observers,         \* the observers this validator has connected to the document
    recheckTimeout,    \* this.recheckTimeout: 0 is undefined, else a timer handle
    timers,            \* host timers: handle -> ticks left, -1 when not pending
    audits,            \* recheckAll calls in flight: slot -> position in the loop
    rejected,          \* a call threw, or a promise it returned was rejected
    last,              \* what the step just taken settled, if it settled a call
    chain,             \* the current run of debounceRecheck calls
    uiClasses,         \* this.uiClasses
    stale,             \* per element: what it carries under earlier class names
    listeners,         \* the outside-click handlers on the document
    returned           \* the record a caller holds from getConfig()

vars == << config, widgetCache, ui, styleInjected, mutationObserver, observers,
           recheckTimeout, timers, audits, rejected, last, chain,
           uiClasses, stale, listeners, returned >>

AuditIds == 1..MaxAudits

TimerIds == 1..MaxTimers

IdleAudit ==
    [ pc |-> "idle", widgets |-> {}, attempts |-> 0, calls |-> 0, backoffs |-> 0,
      overlapped |-> FALSE, options |-> NoRunOnly,
      rulesAtCall |-> Undefined, tagsAtCall |-> Undefined, dropped |-> {} ]

NoLast ==
    [ outcome |-> "none", widgets |-> {}, violations |-> <<>>,
      overlapped |-> FALSE, calls |-> 0, backoffs |-> 0, dropped |-> {} ]

NoChain ==
    [ calls |-> 0, fires |-> 0, since |-> 0, delay |-> 0,
      cancelled |-> FALSE, early |-> FALSE ]

\* the click listeners setupUIInteractions has put on the document: for an
\* element, whether the handler of the popup it carries is attached; and the
\* number of attached handlers whose popup has been removed from the document;
\* and the CMS event names for which setupEventListeners has put a listener
\* on the document
NoListeners == [attached |-> [e \in Elems |-> FALSE], orphaned |-> 0, cms |-> {}]

\* a setup that listens for no CMS event
SetupEventListeners_None(cfg) == {}

\* setupEventListeners: one listener on the document for every name in
\* config.cmsEvents
SetupEventListeners(cfg) ==
    { cfg.cmsEvents.values[i] : i \in DOMAIN cfg.cmsEvents.values }

\* getConfig() has not been called; sharesSelectors: the record's
\* widgetSelectors is the very array this.config.widgetSelectors is
NoReturned == [present |-> FALSE, widgetSelectors |-> <<>>, sharesSelectors |-> FALSE]

InFlight(as) == { a \in AuditIds : as[a].pc # "idle" }

FreeAudit(as) == { a \in AuditIds : as[a].pc = "idle" }

\* the lowest free slot
NextAuditId(as) == CHOOSE a \in FreeAudit(as) : \A b \in FreeAudit(as) : a <= b

\* widgets.forEach(widget => this.clearWidgetUI(widget))
UIAfterClear(u, widgets) ==
    [e \in Elems |-> IF e \in widgets THEN ClearWidgetUI(u[e]).ui ELSE u[e]]

CacheAfterClear(u, cache, widgets) ==
    [e \in Elems |-> IF e \in widgets THEN ClearWidgetUI(u[e]).st ELSE cache[e]]

\* the handlers after clearWidgetUI on each of widgets: removing a popup leaves
\* its handler on the document
ListenersAfterClear(l, u, widgets) ==
    LET left == Cardinality({ e \in widgets : u[e].popups # <<>> /\ l.attached[e] })
    IN  [ attached |-> [e \in Elems |-> IF e \in widgets THEN FALSE ELSE l.attached[e]],
          orphaned |-> IF l.orphaned + left <= MaxOrphaned
                         THEN l.orphaned + left ELSE MaxOrphaned,
          cms      |-> l.cms ]

\* the loop test of recheckAll: attempts <= maxRetries (and no success yet)
LoopContinues(attempts, cfg) == attempts <= cfg.maxRetries

\* the engine call of one loop iteration: axe.run(document, axeOptions)
CallEngine(audit, cfg) ==
    [audit EXCEPT !.pc = "awaiting",
                  !.calls = @ + 1,
                  !.options = BuildAxeOptions(cfg),
                  !.rulesAtCall = cfg.axeRules,
                  !.tagsAtCall = cfg.axeTags]

\* a recheckAll call that has resolved its widgets, up to its first await
NewAudit(cfg, widgets, overlapped, dropped) ==
    CallEngine([IdleAudit EXCEPT !.widgets = widgets, !.overlapped = overlapped,
                                 !.dropped = dropped], cfg)

Settled(outcome, audit, violations) ==
    [ outcome |-> outcome, widgets |-> audit.widgets,
      violations |-> violations, overlapped |-> audit.overlapped,
      calls |-> audit.calls, backoffs |-> audit.backoffs, dropped |-> audit.dropped ]

(***************************************************************************)
(* Timers, and the records and tests of the mutation observer.             *)
(***************************************************************************)
MaxChainCalls == 3    \* calls counted in one run of debounceRecheck calls

Pending(tm) == { t \in TimerIds : tm[t] >= 0 }

\* clearTimeout that cancels nothing
ClearTimeout_Ignores(tm, handle) == tm

\* clearTimeout(handle): a handle that is not pending is ignored
ClearTimeout(tm, handle) ==
    IF handle \in Pending(tm) THEN [tm EXCEPT ![handle] = -1] ELSE tm

\* debounceRecheck that schedules without cancelling
CancelPending_Keeps(tm, handle) == tm

\* if (this.recheckTimeout !== undefined) clearTimeout(this.recheckTimeout)
CancelPending(tm, handle) ==
    IF handle # 0 THEN ClearTimeout(tm, handle) ELSE tm

\* a delay that is always the configured one
EffectiveDelay_IgnoresArgument(delay, cfg) == cfg.debounceDelay

\* delay || this.config.debounceDelay
EffectiveDelay(delay, cfg) == IF delay # 0 THEN delay ELSE cfg.debounceDelay

\* setTimeout: the lowest handle that is not pending
NewHandle(tm) == CHOOSE t \in TimerIds \ Pending(tm) :
                    \A u \in TimerIds \ Pending(tm) : t <= u

\* a call continues the current run when it comes before the delay of the
\* previous call has elapsed
ChainAfterCall(c, d) ==
    LET continuing == c.calls > 0 /\ c.since < c.delay
    IN  [ calls     |-> IF continuing
                          THEN (IF c.calls < MaxChainCalls THEN c.calls + 1 ELSE c.calls)
                          ELSE 1,
          fires     |-> IF continuing THEN c.fires ELSE 0,
          since     |-> 0,
          delay     |-> d,
          cancelled |-> FALSE,
          early     |-> IF continuing THEN c.early ELSE FALSE ]

A11yAttributes == {"alt", "src", "href", "title", "aria-label", "aria-labelledby", "role"}

\* a mutation record: its type, attribute name, target (an element of the
\* document, or the badge or popup the validator put on it) and, for a
\* child-list record, the kinds of the added and removed nodes
Mutation(type, attributeName, target, part, nodes) ==
    [ type |-> type, attributeName |-> attributeName, target |-> target,
      part |-> part, nodes |-> nodes ]

\* an attribute the validator watches changes inside a widget, on a badge and
\* outside every widget; the class of an element in a widget changes; nodes
\* are added inside a widget, without and with a badge among them
MutationRecords ==
    { Mutation("attributes", "alt", "a1", "self", <<>>),
      Mutation("attributes", "alt", "a1", "badge", <<>>),
      Mutation("attributes", "alt", "x", "self", <<>>),
      Mutation("attributes", "class", "A", "self", <<>>),
      Mutation("childList", "", "a1", "self", <<"plain">>),
      Mutation("childList", "", "A", "self", <<"plain", "badge">>) }

MaxBatch == 2         \* records in one batch of mutations

MutationBatches == UNION { [1..n -> MutationRecords] : n \in 1..MaxBatch }

\* a test that takes no node for the validator's own
IsOurUIElement_Never(part) == FALSE

\* isOurUIElement: the node is a badge or a popup, or lies inside one
IsOurUIElement(part) == part \in {"badge", "popup"}

\* a test that looks at the target alone
AffectsWidget_TargetOnly(sels, target) == IsTargetWidget(sels, target)

\* affectsWidget: the target is a widget, contains one or lies inside one
AffectsWidget(sels, target) ==
    \/ IsTargetWidget(sels, target)
    \/ ContainsWidget(sels, target)
    \/ IsInsideWidget(sels, target)

\* one pass of the observer's loop body: does this record ask for a recheck
Qualifies(m, sels, u) ==
    /\ ~IsOurUIElement(m.part)
    /\ ~(m.type = "attributes" /\ m.attributeName = "class" /\ u[m.target].outline)
    /\ ~(m.type = "childList" /\ \E i \in DOMAIN m.nodes : IsOurUIElement(m.nodes[i]))
    /\ AffectsWidget(sels, m.target)
    /\ \/ m.type = "childList"
       \/ m.type = "attributes" /\ m.attributeName \in A11yAttributes

\* the records that ask for a recheck
Qualifying(sels, u) == { m \in MutationRecords : Qualifies(m, sels, u) }

\* the loop over a batch: shouldRecheck is set by the first record that asks
ShouldRecheck(mutations, qualifying) ==
    \E i \in DOMAIN mutations : mutations[i] \in qualifying

\* attributeFilter of observe(): the attributes whose changes are reported
AttributeFilter == A11yAttributes \cup {"class"}

\* the record m reaches the observer's callback and sets shouldRecheck there
Asks(m, cfg, u) ==
    /\ m.type = "childList" \/ m.attributeName \in AttributeFilter
    /\ Qualifies(m, cfg.widgetSelectors, u)

\* the records of the validator's writes on a widget w: classList.remove and
\* classList.add set the class attribute of w; a badge or a popup that is
\* removed from w or appended to it is a child-list record on w.  Does one of
\* them ask for a recheck?
WritesAsk(w, badge, popup, cfg, u) ==
    \/ Asks(Mutation("attributes", "class", w, "self", <<>>), cfg, u)
    \/ badge /\ Asks(Mutation("childList", "", w, "self", <<"badge">>), cfg, u)
    \/ popup /\ Asks(Mutation("childList", "", w, "self", <<"popup">>), cfg, u)

\* clearWidgetUI on each of widgets, whose UI was before: the class attribute
\* is set, every badge and popup child is removed
ClearAsks(before, widgets, cfg, u) ==
    \E w \in widgets :
        WritesAsk(w, before[w].badges # <<>>, before[w].popups # <<>>, cfg, u)

\* the observer's callback on the records of the validator's own writes, run
\* once the code that wrote has returned: debounceRecheck() when
\* shouldRecheck is set.  tm and c are the timers and the run of
\* debounceRecheck calls as the writing code left them.
ObserverSees(shouldRecheck, observing, cfg, tm, c) ==
    IF observing /\ shouldRecheck
      THEN LET cleared == CancelPending(tm, recheckTimeout)
               d       == EffectiveDelay(0, cfg)
           IN  /\ timers' = [cleared EXCEPT ![NewHandle(cleared)] = d]
               /\ recheckTimeout' = NewHandle(cleared)
               /\ chain' = ChainAfterCall(c, d)
      ELSE /\ timers' = tm
           /\ recheckTimeout' = recheckTimeout
           /\ chain' = c

(***************************************************************************)
(* The state after new AccessibilityValidator(userConfig) on a document    *)
(* that has finished loading: mergeConfig, injectCSS, setupEventListeners, *)
(* then start(): recheckAll() up to its first await, and startWatching().  *)
(***************************************************************************)
InitWith(userConfigs) ==
    \E uc \in userConfigs :
        LET cfg     == MergeConfig(uc)
            throws  == QueryThrows(cfg.widgetSelectors)
            widgets == IF throws THEN {} ELSE GetAllWidgets(cfg.widgetSelectors)
            begins  == widgets # {} /\ LoopContinues(0, cfg)
            blank   == [e \in Elems |-> NoUI]
            nocache == [e \in Elems |-> NoState]
        IN  /\ config = cfg
            /\ ui = UIAfterClear(blank, widgets)
            /\ widgetCache = CacheAfterClear(blank, nocache, widgets)
            /\ styleInjected = TRUE
            /\ mutationObserver = cfg.enableMutationObserver
            /\ observers = IF cfg.enableMutationObserver THEN 1 ELSE 0
            /\ recheckTimeout = 0
            /\ timers = [t \in TimerIds |-> -1]
            /\ audits = [a \in AuditIds |->
                           IF a = 1 /\ begins
                             THEN NewAudit(cfg, widgets, FALSE, {})
                             ELSE IdleAudit]
            /\ rejected = throws
            /\ last = NoLast
            /\ chain = NoChain
            /\ uiClasses = CreateUIClasses(cfg)
            /\ stale = [e \in Elems |-> NoStale]
            /\ listeners = [NoListeners EXCEPT !.cms = SetupEventListeners(cfg)]
            /\ returned = NoReturned


(***************************************************************************)
(* recheckAll.                                                             *)
(***************************************************************************)
\* a test that never ends the call
NoWidgets_Never(widgets) == FALSE

\* if (!widgets.length) return
NoWidgets(widgets) == widgets = {}

\* recheckAll() under configuration cfg on a document whose UI is u and whose
\* click handlers are l, up to its first await (or to its return): injectCSS,
\* getAllWidgets, return when none matches, clear every matched widget, then
\* the first engine call; the observer then gets the records of the clearing.
\* The caller sets config'; tm and c are the timers and the run of
\* debounceRecheck calls as the caller left them.
RecheckAllFrom(cfg, dropped, u, l, tm, c) ==
    LET call == [IdleAudit EXCEPT !.dropped = dropped]
    IN  /\ styleInjected' = TRUE
        /\ IF QueryThrows(cfg.widgetSelectors)
             THEN /\ rejected' = TRUE
                  /\ last' = Settled("threw", call, <<>>)
                  /\ ui' = u
                  /\ listeners' = l
                  /\ ObserverSees(FALSE, observers > 0, cfg, tm, c)
                  /\ UNCHANGED << widgetCache, audits >>
             ELSE LET widgets == GetAllWidgets(cfg.widgetSelectors)
                  IN  IF NoWidgets(widgets)
                        THEN /\ last' = Settled("empty", call, <<>>)
                             /\ ui' = u
                             /\ listeners' = l
                             /\ ObserverSees(FALSE, observers > 0, cfg, tm, c)
                             /\ UNCHANGED << widgetCache, audits, rejected >>
                        ELSE /\ ui' = UIAfterClear(u, widgets)
                             /\ widgetCache' = CacheAfterClear(u, widgetCache, widgets)
                             /\ listeners' = ListenersAfterClear(l, u, widgets)
                             /\ ObserverSees(ClearAsks(u, widgets, cfg, ui'),
                                             observers > 0, cfg, tm, c)
                             /\ UNCHANGED rejected
                             /\ IF LoopContinues(0, cfg)
                                  THEN /\ FreeAudit(audits) # {}
                                       /\ audits' =
                                            [a \in AuditIds |->
                                               IF a = NextAuditId(audits)
                                                 THEN NewAudit(cfg, widgets, InFlight(audits) # {},
                                                               dropped)
                                               ELSE IF audits[a].pc # "idle"
                                                 THEN [audits[a] EXCEPT !.overlapped = TRUE]
                                               ELSE audits[a]]
                                       /\ last' = NoLast
                                  ELSE /\ last' = Settled("noattempt",
                                                          [call EXCEPT !.widgets = widgets], <<>>)
                                       /\ UNCHANGED audits

\* recheckAll() on the document as it is
RecheckAllWith(cfg, dropped) ==
    RecheckAllFrom(cfg, dropped, ui, listeners, timers, chain)

\* the public call, and the 'wa11y:recheck' listener
RecheckAll ==
    /\ RecheckAllWith(config, {})
    /\ UNCHANGED << config, mutationObserver, observers, uiClasses, stale, returned >>

\* widgets.forEach: renderWidgetUI(widget, the violations inside widget)
RenderAll(u, cache, widgets, violations) ==
    [ ui    |-> [e \in Elems |->
                   IF e \in widgets
                     THEN RenderWidgetUI(WidgetViolations(e, violations), u[e], cache[e]).ui
                     ELSE u[e]],
      cache |-> [e \in Elems |->
                   IF e \in widgets
                     THEN RenderWidgetUI(WidgetViolations(e, violations), u[e], cache[e]).st
                     ELSE cache[e]] ]

\* the test that makes renderWidgetUI return without touching the widget
RenderSkips(violations, st) ==
    /\ GetWidgetState(st).lastViolationCount = Len(violations)
    /\ GetWidgetState(st).hasUI = (Len(violations) > 0)

\* the handlers after the same loop: a widget that is rendered is cleared (the
\* handler of a removed popup stays on the document), and with violations its
\* new popup gets a handler (setupUIInteractions)
ListenersAfterRender(l, u, cache, widgets, violations) ==
    LET touched == { e \in widgets :
                       ~RenderSkips(WidgetViolations(e, violations), cache[e]) }
        cleared == ListenersAfterClear(l, u, touched)
    IN  [ attached |-> [e \in Elems |->
                          IF e \in touched
                            THEN Len(WidgetViolations(e, violations)) > 0
                            ELSE l.attached[e]],
          orphaned |-> cleared.orphaned,
          cms      |-> l.cms ]

\* the writes of the same loop: a widget that is rendered is cleared, and with
\* violations it gets the outline class, a badge and a popup
RenderAsks(before, cache, widgets, violations, cfg, u) ==
    \E w \in widgets :
        /\ ~RenderSkips(WidgetViolations(w, violations), cache[w])
        /\ WritesAsk(w,
                     before[w].badges # <<>> \/ Len(WidgetViolations(w, violations)) > 0,
                     before[w].popups # <<>> \/ Len(WidgetViolations(w, violations)) > 0,
                     cfg, u)

\* a rendering that puts the stylesheet back first
Resolve_InjectsCSS(a, violations) ==
    /\ audits[a].pc = "awaiting"
    /\ styleInjected' = TRUE
    /\ ui' = RenderAll(ui, widgetCache, audits[a].widgets, violations).ui
    /\ widgetCache' = RenderAll(ui, widgetCache, audits[a].widgets, violations).cache
    /\ listeners' = ListenersAfterRender(listeners, ui, widgetCache, audits[a].widgets,
                                         violations)
    /\ ObserverSees(RenderAsks(ui, widgetCache, audits[a].widgets, violations, config, ui'),
                    observers > 0, config, timers, chain)
    /\ audits' = [audits EXCEPT ![a] = IdleAudit]
    /\ last' = Settled("ok", audits[a], violations)
    /\ UNCHANGED << config, mutationObserver, observers, rejected, uiClasses, stale, returned >>

\* axe.run resolves with violations: map them to the widgets, render, succeed;
\* the observer then gets the records of the rendering
Resolve(a, violations) ==
    /\ audits[a].pc = "awaiting"
    /\ ui' = RenderAll(ui, widgetCache, audits[a].widgets, violations).ui
    /\ widgetCache' = RenderAll(ui, widgetCache, audits[a].widgets, violations).cache
    /\ listeners' = ListenersAfterRender(listeners, ui, widgetCache, audits[a].widgets,
                                         violations)
    /\ ObserverSees(RenderAsks(ui, widgetCache, audits[a].widgets, violations, config, ui'),
                    observers > 0, config, timers, chain)
    /\ audits' = [audits EXCEPT ![a] = IdleAudit]
    /\ last' = Settled("ok", audits[a], violations)
    /\ UNCHANGED << config, styleInjected, mutationObserver, observers, rejected,
                    uiClasses, stale, returned >>

AxeResolves(a) == \E violations \in SomeEngineResults : Resolve(a, violations)

\* the same, over every engine result of the model
AxeResolvesAny(a) == \E violations \in EngineResults : Resolve(a, violations)

\* a failure handler that gives up one attempt early
RetriesExhausted_OffByOne(attempts, cfg) == attempts >= cfg.maxRetries

\* the test of the catch block: attempts > maxRetries
RetriesExhausted(attempts, cfg) == attempts > cfg.maxRetries

\* a failure handler that leaves the widgets as they are
RenderNone_Nothing(u, cache, widgets) == [ui |-> u, cache |-> cache]

\* widgets.forEach(widget => this.renderWidgetUI(widget, []))
RenderNone(u, cache, widgets) == RenderAll(u, cache, widgets, <<>>)

\* axe.run rejects: count the attempt; past maxRetries render every widget
\* with no violations (the observer then gets the records of it), else wait
\* 50 ms; then the loop test decides whether the engine is called again
AxeRejects(a) ==
    /\ audits[a].pc = "awaiting"
    /\ LET attempts == audits[a].attempts + 1
           failed   == [audits[a] EXCEPT !.attempts = attempts]
       IN  IF RetriesExhausted(attempts, config)
             THEN /\ ui' = RenderNone(ui, widgetCache, audits[a].widgets).ui
                  /\ widgetCache' = RenderNone(ui, widgetCache, audits[a].widgets).cache
                  /\ listeners' = ListenersAfterRender(listeners, ui, widgetCache,
                                                       audits[a].widgets, <<>>)
                  /\ ObserverSees(RenderAsks(ui, widgetCache, audits[a].widgets, <<>>,
                                             config, ui'),
                                  observers > 0, config, timers, chain)
                  /\ IF LoopContinues(attempts, config)
                       THEN /\ audits' = [audits EXCEPT ![a] = CallEngine(failed, config)]
                            /\ last' = NoLast
                       ELSE /\ audits' = [audits EXCEPT ![a] = IdleAudit]
                            /\ last' = Settled("failed", failed, <<>>)
             ELSE /\ audits' = [audits EXCEPT ![a] =
                                  [failed EXCEPT !.pc = "backoff", !.backoffs = @ + 1]]
                  /\ last' = NoLast
                  /\ UNCHANGED << ui, widgetCache, listeners, timers, recheckTimeout, chain >>
    /\ UNCHANGED << config, styleInjected, mutationObserver, observers, rejected,
                    uiClasses, stale, returned >>

\* the 50 ms wait is over: test the loop condition and call the engine again
BackoffElapsed(a) ==
    /\ audits[a].pc = "backoff"
    /\ IF LoopContinues(audits[a].attempts, config)
         THEN /\ audits' = [audits EXCEPT ![a] = CallEngine(@, config)]
              /\ last' = NoLast
         ELSE /\ audits' = [audits EXCEPT ![a] = IdleAudit]
              /\ last' = Settled("gaveup", audits[a], <<>>)
    /\ UNCHANGED << config, widgetCache, ui, styleInjected, mutationObserver, observers,
                    recheckTimeout, timers, rejected, chain,
                    uiClasses, stale, listeners, returned >>

(***************************************************************************)
(* Selectors.                                                              *)
(***************************************************************************)
\* push that puts the selectors in place of the list
PushSelectors_Replaces(sels, selectors) == selectors

\* this.config.widgetSelectors.push(...selectors): the same array, longer
PushSelectors(sels, selectors) == sels \o selectors

\* addSelectors: push the selectors, then recheckAll(); a record from
\* getConfig() that holds the same array sees the push
AddSelectors(selectors) ==
    /\ Len(config.widgetSelectors) + Len(selectors) <= MaxSelectors
    /\ config' = [config EXCEPT !.widgetSelectors = PushSelectors(@, selectors)]
    /\ returned' = IF returned.sharesSelectors
                     THEN [returned EXCEPT
                             !.widgetSelectors = PushSelectors(@, selectors)]
                     ELSE returned
    /\ RecheckAllWith(config', {})
    /\ UNCHANGED << mutationObserver, observers, uiClasses, stale >>

\* filter that drops the first occurrence only
FilterSelectors_FirstOnly(sels, selectors) ==
    LET hits == { i \in DOMAIN sels : sels[i] \in selectors }
    IN  IF hits = {} THEN sels
        ELSE LET first == CHOOSE i \in hits : \A j \in hits : i <= j
             IN  [i \in 1..(Len(sels) - 1) |-> IF i < first THEN sels[i] ELSE sels[i + 1]]

\* widgetSelectors.filter(s => !selectors.includes(s))
FilterSelectors(sels, selectors) ==
    SelectSeq(sels, LAMBDA s : s \notin selectors)

\* removeSelectors: filter into a new array, then recheckAll(); a record from
\* getConfig() keeps the old array
RemoveSelectors(selectors) ==
    /\ config' = [config EXCEPT
                    !.widgetSelectors = FilterSelectors(@, selectors)]
    /\ RecheckAllWith(config',
                      { e \in Elems : /\ IsTargetWidget(config.widgetSelectors, e)
                                      /\ ~IsTargetWidget(config'.widgetSelectors, e)
                                      /\ ui[e].badges # <<>> })
    /\ returned' = [returned EXCEPT !.sharesSelectors = FALSE]
    /\ UNCHANGED << mutationObserver, observers, uiClasses, stale >>


(***************************************************************************)
(* The debounce timer.                                                     *)
(***************************************************************************)
\* debounceRecheck(delay): cancel the pending timer, schedule recheckAll
DebounceRecheckWith(delay) ==
    LET cleared == CancelPending(timers, recheckTimeout)
        d       == EffectiveDelay(delay, config)
    IN  /\ TimerIds \ Pending(cleared) # {}
        /\ timers' = [cleared EXCEPT ![NewHandle(cleared)] = d]
        /\ recheckTimeout' = NewHandle(cleared)
        /\ chain' = ChainAfterCall(chain, d)
        /\ last' = NoLast
        /\ UNCHANGED << config, widgetCache, ui, styleInjected, mutationObserver, observers,
                        audits, rejected, uiClasses, stale, listeners, returned >>

\* the delays a caller passes: 0 stands for no argument (and for 0)
DelayArgs == {0, 1}

DebounceRecheck == \E delay \in DelayArgs : DebounceRecheckWith(delay)

\* a CMS event listener: debounceRecheck(500)
CmsEvent == listeners.cms # {} /\ DebounceRecheckWith(CmsEventDelay)

\* an event called name is dispatched on the document: the listener for that
\* name, if there is one, calls debounceRecheck(500)
DispatchEvent(name) ==
    IF name \in listeners.cms
      THEN DebounceRecheckWith(CmsEventDelay)
      ELSE /\ last' = NoLast
           /\ UNCHANGED << config, widgetCache, ui, styleInjected, mutationObserver,
                           observers, recheckTimeout, timers, audits, rejected, chain,
                           uiClasses, stale, listeners, returned >>

\* the 'wa11y:recheck' listener: () => this.recheckAll()
RecheckEvent == RecheckAll

\* 100 ms pass: every pending timer comes 100 ms closer to being due
Tick ==
    /\ \/ \E t \in TimerIds : timers[t] > 0
       \/ chain.calls > 0 /\ chain.since < CmsEventDelay
    /\ timers' = [t \in TimerIds |-> IF timers[t] > 0 THEN timers[t] - 1 ELSE timers[t]]
    /\ chain' = [chain EXCEPT !.since = IF @ < CmsEventDelay THEN @ + 1 ELSE @]
    /\ last' = NoLast
    /\ UNCHANGED << config, widgetCache, ui, styleInjected, mutationObserver, observers,
                    recheckTimeout, audits, rejected,
                    uiClasses, stale, listeners, returned >>

\* a due timer runs its callback: () => this.recheckAll()
TimerFires(t) ==
    /\ timers[t] = 0
    /\ RecheckAllFrom(config, {}, ui, listeners,
                      [timers EXCEPT ![t] = -1],
                      [chain EXCEPT !.fires = IF @ < 2 THEN @ + 1 ELSE @,
                                    !.early = @ \/ chain.since < chain.delay])
    /\ UNCHANGED << config, mutationObserver, observers, uiClasses, stale, returned >>

(***************************************************************************)
(* The mutation observer.                                                  *)
(***************************************************************************)
\* the observer's callback on a batch of records: what it does depends on the
\* batch through shouldRecheck only
MutationBatch ==
    /\ observers > 0
    /\ \E shouldRecheck \in
            LET qualifying == Qualifying(config.widgetSelectors, ui)
            IN  { ShouldRecheck(mutations, qualifying) : mutations \in MutationBatches } :
          IF shouldRecheck
            THEN DebounceRecheckWith(0)
            ELSE /\ last' = NoLast
                 /\ UNCHANGED << config, widgetCache, ui, styleInjected, mutationObserver, observers,
                                 recheckTimeout, timers, audits, rejected, chain,
                                 uiClasses, stale, listeners, returned >>

\* the end of the callback: if (shouldRecheck) this.debounceRecheck()
CallbackEnds(shouldRecheck) ==
    /\ observers > 0
    /\ IF shouldRecheck
         THEN DebounceRecheckWith(0)
         ELSE /\ last' = NoLast
              /\ UNCHANGED << config, widgetCache, ui, styleInjected, mutationObserver, observers,
                              recheckTimeout, timers, audits, rejected, chain,
                              uiClasses, stale, listeners, returned >>

\* records the observer's callback can get: watched attributes and the class
\* attribute change on a widget, inside one, on an element that contains one,
\* outside every widget and on or inside a badge or a popup; nodes are added or
\* removed in the same places, plain ones and badges and popups
CallbackRecords ==
    { Mutation("attributes", "alt", "a1", "self", <<>>),
      Mutation("attributes", "alt", "a1", "badge", <<>>),
      Mutation("attributes", "role", "A", "self", <<>>),
      Mutation("attributes", "alt", "x", "self", <<>>),
      Mutation("attributes", "class", "A", "self", <<>>),
      Mutation("attributes", "class", "N", "self", <<>>),
      Mutation("childList", "", "a1", "self", <<"plain">>),
      Mutation("childList", "", "x", "self", <<"plain">>),
      Mutation("childList", "", "A", "self", <<"plain", "badge">>),
      Mutation("childList", "", "B", "self", <<"popup">>),
      Mutation("childList", "", "A", "popup", <<"plain">>) }

CallbackBatches == UNION { [1..n -> CallbackRecords] : n \in 1..MaxBatch }

\* those of these records that ask for a recheck
CallbackQualifying(sels, u) == { m \in CallbackRecords : Qualifies(m, sels, u) }

\* the observer's callback on one of these batches: the loop, then the end
ObserverCallback ==
    \E shouldRecheck \in
        LET qualifying == CallbackQualifying(config.widgetSelectors, ui)
        IN  { ShouldRecheck(mutations, qualifying) : mutations \in CallbackBatches } :
      CallbackEnds(shouldRecheck)

\* setupMutationObserver that makes a new observer whether or not there is one
SetupMutationObserver_NoGuard(present, connected) ==
    [present |-> TRUE, connected |-> connected + 1]

\* setupMutationObserver: return when there is an observer, else make one and
\* connect it to document.body
SetupMutationObserver(present, connected) ==
    IF present
      THEN [present |-> TRUE, connected |-> connected]
      ELSE [present |-> TRUE, connected |-> connected + 1]

\* the body of stopWatching: disconnect the observer the field holds and set
\* the field to null
Disconnect(present, connected) ==
    IF present
      THEN [present |-> FALSE, connected |-> connected - 1]
      ELSE [present |-> FALSE, connected |-> connected]

\* startWatching: setupMutationObserver when the configuration enables it
StartWatching ==
    /\ IF config.enableMutationObserver
         THEN /\ mutationObserver' = SetupMutationObserver(mutationObserver, observers).present
              /\ observers' = SetupMutationObserver(mutationObserver, observers).connected
         ELSE UNCHANGED << mutationObserver, observers >>
    /\ last' = NoLast
    /\ UNCHANGED << config, widgetCache, ui, styleInjected, recheckTimeout, timers,
                    audits, rejected, chain, uiClasses, stale, listeners, returned >>

\* stopWatching: disconnect and drop the observer
StopWatching ==
    /\ mutationObserver' = Disconnect(mutationObserver, observers).present
    /\ observers' = Disconnect(mutationObserver, observers).connected
    /\ last' = NoLast
    /\ UNCHANGED << config, widgetCache, ui, styleInjected, recheckTimeout, timers,
                    audits, rejected, chain, uiClasses, stale, listeners, returned >>

(***************************************************************************)
(* clearAll and destroy.                                                   *)
(***************************************************************************)
\* clearAll: clear every widget that matches now; the observer then gets the
\* records of the clearing
ClearAll ==
    /\ IF QueryThrows(config.widgetSelectors)
         THEN /\ rejected' = TRUE
              /\ UNCHANGED << ui, widgetCache, listeners, timers, recheckTimeout, chain >>
         ELSE /\ ui' = UIAfterClear(ui, GetAllWidgets(config.widgetSelectors))
              /\ widgetCache' = CacheAfterClear(ui, widgetCache,
                                                GetAllWidgets(config.widgetSelectors))
              /\ listeners' = ListenersAfterClear(listeners, ui,
                                                  GetAllWidgets(config.widgetSelectors))
              /\ ObserverSees(ClearAsks(ui, GetAllWidgets(config.widgetSelectors),
                                        config, ui'),
                              observers > 0, config, timers, chain)
              /\ UNCHANGED rejected
    /\ last' = NoLast
    /\ UNCHANGED << config, styleInjected, mutationObserver, observers, audits,
                    uiClasses, stale, returned >>

\* the loop of destroy over the popups that are in the document: the
\* outside-click handler of each is taken off the document
DetachHandlers(l, u) ==
    [l EXCEPT !.attached = [e \in Elems |-> IF u[e].popups # <<>> THEN FALSE ELSE @[e]]]

\* a destroy that leaves the stylesheet in place
RemoveStyleElement_Keeps(present) == present

\* styleElement.remove() when the element is there
RemoveStyleElement(present) == FALSE

\* destroy: stopWatching (the observer gets no record of what follows), cancel
\* the pending timer, clearAll, detach the handlers of the popups still in the
\* document, remove the stylesheet; a throwing clearAll ends it there
Destroy ==
    /\ mutationObserver' = Disconnect(mutationObserver, observers).present
    /\ observers' = Disconnect(mutationObserver, observers).connected
    /\ timers' = CancelPending(timers, recheckTimeout)
    /\ chain' = [chain EXCEPT !.cancelled = @ \/ (timers' # timers)]
    /\ IF QueryThrows(config.widgetSelectors)
         THEN /\ rejected' = TRUE
              /\ last' = [NoLast EXCEPT !.outcome = "destroy threw"]
              /\ UNCHANGED << ui, widgetCache, styleInjected, listeners >>
         ELSE /\ ui' = UIAfterClear(ui, GetAllWidgets(config.widgetSelectors))
              /\ widgetCache' = CacheAfterClear(ui, widgetCache,
                                                GetAllWidgets(config.widgetSelectors))
              /\ listeners' = DetachHandlers(
                                ListenersAfterClear(listeners, ui,
                                                    GetAllWidgets(config.widgetSelectors)),
                                ui')
              /\ styleInjected' = RemoveStyleElement(styleInjected)
              /\ last' = [NoLast EXCEPT !.outcome = "destroyed"]
              /\ UNCHANGED rejected
    /\ UNCHANGED << config, recheckTimeout, audits, uiClasses, stale, returned >>


\* destroy() of another instance of the class in the same document, with the
\* same class names and selectors that match none of the elements here: its
\* clearAll finds nothing, its loop over the popups of the document detaches
\* the outside-click handler of every popup it finds, and it removes the
\* style element the instances share
DestroyOfAnother ==
    /\ listeners' = DetachHandlers(listeners, ui)
    /\ styleInjected' = RemoveStyleElement(styleInjected)
    /\ last' = [NoLast EXCEPT !.outcome = "another destroyed"]
    /\ UNCHANGED << config, widgetCache, ui, mutationObserver, observers, recheckTimeout,
                    timers, audits, rejected, chain, uiClasses, stale, returned >>

(***************************************************************************)
(* getConfig and updateConfig.                                             *)
(***************************************************************************)
\* { ...this.config }: a new record whose fields hold the same arrays
CopyShares(cfg) == TRUE

\* getConfig: the caller now holds the copy
GetConfig ==
    /\ returned' = [ present |-> TRUE, widgetSelectors |-> config.widgetSelectors,
                     sharesSelectors |-> CopyShares(config) ]
    /\ last' = NoLast
    /\ UNCHANGED << config, widgetCache, ui, styleInjected, mutationObserver, observers,
                    recheckTimeout, timers, audits, rejected, chain,
                    uiClasses, stale, listeners >>

\* the caller pushes a selector onto the widgetSelectors of the record it
\* holds; the validator's configuration holds the same array or it does not
CallerPushesSelector(selector) ==
    /\ returned.present
    /\ Len(returned.widgetSelectors) < MaxSelectors
    /\ returned' = [returned EXCEPT !.widgetSelectors = Append(@, selector)]
    /\ config' = IF returned.sharesSelectors
                   THEN [config EXCEPT !.widgetSelectors = Append(@, selector)]
                   ELSE config
    /\ last' = NoLast
    /\ UNCHANGED << widgetCache, ui, styleInjected, mutationObserver, observers,
                    recheckTimeout, timers, audits, rejected, chain,
                    uiClasses, stale, listeners >>

\* the configuration a validator has before any user field is merged in
BlankConfig ==
    [ widgetSelectors |-> <<>>, axeRules |-> Undefined, axeTags |-> Undefined,
      debounceDelay |-> DefaultDebounceDelay, enableMutationObserver |-> TRUE,
      maxRetries |-> DefaultMaxRetries, uiClasses |-> Undefined,
      cmsEvents |-> Undefined ]

\* a merge of the update over the defaults instead of the prior configuration
Spread_DropsPrior(base, p) ==
    [k \in DOMAIN base |-> IF k \in DOMAIN p THEN p[k] ELSE BlankConfig[k]]

\* a merge in which the prior configuration wins
Spread_PriorWins(base, p) == base

\* { ...this.config, ...newConfig }: the fields of p over those of base
Spread(base, p) ==
    [k \in DOMAIN base |-> IF k \in DOMAIN p THEN p[k] ELSE base[k]]

\* updateConfig(p): merge, recompute the class names when p carries uiClasses,
\* recheckAll().  What the elements carry under class names that are no
\* longer current is out of reach of clearWidgetUI from then on.
UpdateConfigWith(p) ==
    LET merged  == MergeConfig(Spread(config, p))
        classes == IF "uiClasses" \in DOMAIN p /\ p.uiClasses.defined
                     THEN CreateUIClasses(merged)
                     ELSE uiClasses
        found   == [e \in Elems |-> UIUnder(ui[e], stale[e], uiClasses, classes)]
        handled == [listeners EXCEPT !.attached =
                      [e \in Elems |-> AttachedUnder(stale[e], listeners.attached[e],
                                                     uiClasses, classes)]]
    IN  /\ config' = merged
        /\ uiClasses' = classes
        /\ stale' = [e \in Elems |->
                       StaleUnder(ui[e], stale[e], listeners.attached[e], uiClasses, classes)]
        /\ returned' = [returned EXCEPT
                          !.sharesSelectors = @ /\ "widgetSelectors" \notin DOMAIN p]
        /\ RecheckAllFrom(merged, {}, found, handled, timers, chain)
        /\ UNCHANGED << mutationObserver, observers >>

\* the updates of the README's "Runtime Configuration Changes"
RuleModePatches ==
    << [axeRules |-> Some(<<"color-contrast", "image-alt">>)],
       [axeRules |-> Undefined, axeTags |-> Some(<<"wcag2aa">>)],
       [axeRules |-> Some(<<>>), axeTags |-> Undefined] >>

\* other partial configurations: a popup class, no class override, selectors
OtherPatches ==
    << [uiClasses |-> Some([POPUP |-> "my-popup"])],
       [uiClasses |-> Some(<<>>)],
       [widgetSelectors |-> <<".hero">>] >>

Patches == RuleModePatches \o OtherPatches

UpdateConfig == \E i \in DOMAIN Patches : UpdateConfigWith(Patches[i])

(***************************************************************************)
(* getWidgetStates.                                                        *)
(***************************************************************************)
\* a listing with one entry for every selector of the list an element matches
GetWidgetStates_PerSelector(sels, cache) ==
    IF QueryThrows(sels) THEN [threw |-> TRUE, entries |-> <<>>]
    ELSE LET n    == Len(DocOrder)
             all  == [j \in 1..(Len(sels) * n) |->
                        [ sel     |-> sels[((j - 1) \div n) + 1],
                          element |-> DocOrder[((j - 1) % n) + 1] ]]
             hits == SelectSeq(all, LAMBDA h : ElementMatches(h.element, h.sel))
         IN  [ threw   |-> FALSE,
               entries |-> [i \in DOMAIN hits |->
                              [ element |-> hits[i].element,
                                state   |-> GetWidgetState(cache[hits[i].element]) ]] ]

\* getWidgetStates(): the elements querySelectorAll finds for the combined
\* selector, in document order and each once, with getWidgetState of each;
\* the query throws on an empty selector list
GetWidgetStates(sels, cache) ==
    IF QueryThrows(sels) THEN [threw |-> TRUE, entries |-> <<>>]
    ELSE LET ws == SelectSeq(DocOrder, LAMBDA e : e \in GetAllWidgets(sels))
         IN  [ threw   |-> FALSE,
               entries |-> [i \in DOMAIN ws |->
                              [ element |-> ws[i],
                                state   |-> GetWidgetState(cache[ws[i]]) ]] ]

(***************************************************************************)
(* Clicks (setupUIInteractions).                                           *)
(***************************************************************************)
\* open() and close() of a badge/popup pair: the popup's hidden attribute and
\* the badge's aria-expanded
SetOpen(u, isOpen) ==
    [u EXCEPT !.popups = [i \in DOMAIN @ |-> [@[i] EXCEPT !.hidden = ~isOpen]],
              !.badges = [i \in DOMAIN @ |-> [@[i] EXCEPT !.expanded = isOpen]]]

\* the popup of the element is in the document and not hidden
IsOpen(u) == \E i \in DOMAIN u.popups : ~u.popups[i].hidden

\* a closeOthers that hides nothing
CloseOthers_None(u, e) == u

\* closeOthers: every popup of the current popup class that is not hidden,
\* but the one of e, gets the hidden attribute (its badge is not touched)
CloseOthers(u, e) ==
    [x \in Elems |->
        IF x = e THEN u[x]
        ELSE [u[x] EXCEPT !.popups = [i \in DOMAIN @ |-> [@[i] EXCEPT !.hidden = TRUE]]]]

\* the writes of open(), close() and closeOthers on the pairs of the elements
\* es: the hidden attribute of the popup, aria-expanded of the badge
ToggleAsks(es, cfg, u) ==
    \E e \in es :
        \/ Asks(Mutation("attributes", "hidden", e, "popup", <<>>), cfg, u)
        \/ Asks(Mutation("attributes", "aria-expanded", e, "badge", <<>>), cfg, u)

\* a click on the badge of e: it does not reach the document; willOpen is read
\* first, then closeOthers, then open or close
BadgeClick(e) ==
    /\ ui[e].badges # <<>> /\ ui[e].popups # <<>>
    /\ LET willOpen == ~IsOpen(ui[e])
       IN  ui' = [CloseOthers(ui, e) EXCEPT ![e] = SetOpen(@, willOpen)]
    /\ ObserverSees(ToggleAsks({ x \in Elems : ui[x].popups # <<>> }, config, ui'),
                    observers > 0, config, timers, chain)
    /\ last' = NoLast
    /\ UNCHANGED << config, widgetCache, styleInjected, mutationObserver, observers,
                    audits, rejected, uiClasses, stale, listeners, returned >>

\* a click on the close button of the popup of e: it does not reach the
\* document; close
CloseClick(e) ==
    /\ ui[e].popups # <<>>
    /\ ui' = [ui EXCEPT ![e] = SetOpen(@, FALSE)]
    /\ ObserverSees(ToggleAsks({e}, config, ui'), observers > 0, config, timers, chain)
    /\ last' = NoLast
    /\ UNCHANGED << config, widgetCache, styleInjected, mutationObserver, observers,
                    audits, rejected, uiClasses, stale, listeners, returned >>

\* a click on target (or on something inside it that is no badge and no close
\* button) reaches the document: every outside-click handler there closes its
\* pair unless its widget contains the target; the handler of a popup that is
\* no longer in the document changes nothing that is in the document
DocumentClick(target) ==
    /\ ui' = [e \in Elems |->
                IF listeners.attached[e] /\ ~Contains(e, target)
                  THEN SetOpen(ui[e], FALSE)
                  ELSE ui[e]]
    /\ stale' = [e \in Elems |->
                   IF Contains(e, target) THEN stale[e]
                   ELSE [stale[e] EXCEPT !.popups =
                           [i \in DOMAIN @ |->
                              IF @[i].handler THEN [@[i] EXCEPT !.hidden = TRUE] ELSE @[i]]]]
    /\ ObserverSees(ToggleAsks({ e \in Elems : listeners.attached[e] /\ ~Contains(e, target) },
                               config, ui'),
                    observers > 0, config, timers, chain)
    /\ last' = NoLast
    /\ UNCHANGED << config, widgetCache, styleInjected, mutationObserver, observers,
                    audits, rejected, uiClasses, listeners, returned >>

\* the 'beforeunload' listener: () => this.destroy()
BeforeUnload == Destroy

(***************************************************************************)
(* Specifications.                                                         *)
(***************************************************************************)
UserConfig(sels, rules, tags, retries) ==
    [ widgetSelectors |-> sels, axeRules |-> rules, axeTags |-> tags,
      debounceDelay |-> DefaultDebounceDelay, enableMutationObserver |-> TRUE,
      maxRetries |-> retries, uiClasses |-> Undefined, cmsEvents |-> Undefined ]

\* audits, selectors and clearing, from every selector list and retry bound
AuditConfigs ==
    { UserConfig(sels, Undefined, Undefined, m) :
        sels \in SelectorLists(MaxSelectors), m \in 0..MaxRetriesBound }

Init == InitWith(AuditConfigs)

Next ==
    \/ RecheckAll
    \/ \E a \in AuditIds : AxeResolves(a)
    \/ \E a \in AuditIds : AxeRejects(a)
    \/ \E a \in AuditIds : BackoffElapsed(a)
    \/ \E s \in Selectors : AddSelectors(<<s>>)
    \/ \E S \in SUBSET Selectors : S # {} /\ RemoveSelectors(S)
    \/ ClearAll

Spec == Init /\ [][Next]_vars


\* one selector, every retry bound: the retry loop under a fair engine and
\* fair timers (the engine answers every call, a 50 ms wait ends)
RetryConfigs ==
    { UserConfig(<<".card-video">>, Undefined, Undefined, m) : m \in 0..MaxRetriesBound }

InitRetry == InitWith(RetryConfigs)

NextRetry ==
    \/ RecheckAll
    \/ \E a \in AuditIds : AxeResolves(a)
    \/ \E a \in AuditIds : AxeRejects(a)
    \/ \E a \in AuditIds : BackoffElapsed(a)

SpecRetry ==
    /\ InitRetry
    /\ [][NextRetry]_vars
    /\ \A a \in AuditIds : WF_vars(AxeResolves(a) \/ AxeRejects(a))
    /\ \A a \in AuditIds : WF_vars(BackoffElapsed(a))

\* overlapping audits over flat and nested widgets, with clearAll between
OverlapConfigs ==
    { UserConfig(sels, Undefined, Undefined, m) :
        sels \in {<<".card-video">>, <<".card-video", ".hero">>},
        m \in 0..MaxRetriesBound }

InitOverlap == InitWith(OverlapConfigs)

NextOverlap ==
    \/ RecheckAll
    \/ \E a \in AuditIds : AxeResolves(a)
    \/ \E a \in AuditIds : AxeRejects(a)
    \/ \E a \in AuditIds : BackoffElapsed(a)
    \/ ClearAll

SpecOverlap == InitOverlap /\ [][NextOverlap]_vars

\* the violation mapping alone: audits one at a time, every engine result
MapConfigs ==
    { UserConfig(sels, Undefined, Undefined, 0) : sels \in SelectorLists(MaxSelectors) }

InitMap == InitWith(MapConfigs)

NextMap ==
    \/ InFlight(audits) = {} /\ RecheckAll
    \/ \E a \in AuditIds : AxeResolvesAny(a)

SpecMap == InitMap /\ [][NextMap]_vars

\* the rule and tag filters a configuration can carry
OptionConfigs ==
    { UserConfig(<<".card-video">>, rules, tags, DefaultMaxRetries) :
        rules \in {Undefined, Some(<<>>), Some(<<"color-contrast">>)},
        tags  \in {Undefined, Some(<<>>), Some(<<"wcag2aa">>)} }

InitOptions == InitWith(OptionConfigs)

SpecOptions == InitOptions /\ [][NextRetry]_vars

\* the debounce timer: mutations, CMS events, calls, the clock
DebounceConfigs == { UserConfig(<<".card-video">>, Undefined, Undefined, 0) }

InitDebounce == InitWith(DebounceConfigs)

NextDebounce ==
    \/ DebounceRecheck
    \/ CmsEvent
    \/ MutationBatch
    \/ StartWatching
    \/ StopWatching
    \/ Tick
    \/ \E t \in TimerIds : TimerFires(t)
    \/ \E a \in AuditIds : AxeResolves(a)
    \/ \E a \in AuditIds : AxeRejects(a)
    \/ Destroy

SpecDebounce == InitDebounce /\ [][NextDebounce]_vars

\* the life of a validator up to destroy(): debounced audits, one at a time,
\* over flat and nested widgets, a selector removed
LifecycleConfigs == { UserConfig(<<".card-video", ".hero">>, Undefined, Undefined, 0) }

InitLifecycle == InitWith(LifecycleConfigs)

NextLifecycle ==
    \/ DebounceRecheckWith(1)
    \/ Tick
    \/ \E t \in TimerIds : InFlight(audits) = {} /\ TimerFires(t)
    \/ \E a \in AuditIds : AxeResolves(a)
    \/ InFlight(audits) = {} /\ RemoveSelectors({".hero"})
    \/ Destroy

SpecLifecycle == InitLifecycle /\ [][NextLifecycle]_vars

\* selectors that match nothing, or stop matching, before and after destroy()
NoMatchConfigs ==
    { UserConfig(sels, Undefined, Undefined, 0) : sels \in {<<".widget">>, <<".card-video">>} }

InitNoMatch == InitWith(NoMatchConfigs)

NextNoMatch ==
    \/ RecheckAll
    \/ \E a \in AuditIds : AxeResolves(a)
    \/ AddSelectors(<<".widget">>)
    \/ \E S \in SUBSET {".card-video", ".widget"} : S # {} /\ RemoveSelectors(S)
    \/ Destroy

SpecNoMatch == InitNoMatch /\ [][NextNoMatch]_vars

\* configurations replaced at run time, from every rule and tag filter, one
\* audit at a time
InitConfig == InitWith(OptionConfigs)

NextConfig ==
    \/ InFlight(audits) = {} /\ UpdateConfig
    \/ \E a \in AuditIds : AxeResolves(a)
    \/ \E a \in AuditIds : AxeRejects(a)
    \/ \E a \in AuditIds : BackoffElapsed(a)

SpecConfig == InitConfig /\ [][NextConfig]_vars

\* a caller that keeps and changes a record from getConfig(), one audit at a
\* time
InitGetConfig == InitWith(DebounceConfigs)

NextGetConfig ==
    \/ GetConfig
    \/ \E s \in Selectors : CallerPushesSelector(s)
    \/ \E s \in Selectors : InFlight(audits) = {} /\ AddSelectors(<<s>>)
    \/ \E s \in Selectors : InFlight(audits) = {} /\ RemoveSelectors({s})
    \/ InFlight(audits) = {} /\ UpdateConfigWith(<<>>)
    \/ \E a \in AuditIds : AxeResolves(a)

SpecGetConfig == InitGetConfig /\ [][NextGetConfig]_vars

\* selectors added and removed, one audit at a time, while a debounce timer
\* may be pending
SelectorConfigs ==
    { UserConfig(sels, Undefined, Undefined, 0) : sels \in {<<>>, <<".card-video">>} }

InitSelectors == InitWith(SelectorConfigs)

NextSelectors ==
    \/ \E s \in {".hero", ".widget"} : InFlight(audits) = {} /\ AddSelectors(<<s>>)
    \/ \E s \in Selectors : InFlight(audits) = {} /\ RemoveSelectors({s})
    \/ \E a \in AuditIds : AxeResolves(a)
    \/ DebounceRecheckWith(1)

SpecSelectors == InitSelectors /\ [][NextSelectors]_vars

\* the events the validator listens for: CMS events, 'wa11y:recheck',
\* mutations, page teardown; timers fire with no audit in flight
InitEvents == InitWith(DebounceConfigs)

NextEvents ==
    \/ CmsEvent
    \/ RecheckEvent
    \/ MutationBatch
    \/ Tick
    \/ \E t \in TimerIds : InFlight(audits) = {} /\ TimerFires(t)
    \/ \E a \in AuditIds : AxeResolves(a)
    \/ BeforeUnload

SpecEvents == InitEvents /\ [][NextEvents]_vars

\* clicks on badges, close buttons and elsewhere, between one audit and the
\* next, over flat and nested widgets and a widget whose selector is removed
InitClicks == InitWith(LifecycleConfigs)

NextClicks ==
    \/ \E e \in Elems : BadgeClick(e)
    \/ \E e \in Elems : CloseClick(e)
    \/ \E target \in Elems : DocumentClick(target)
    \/ InFlight(audits) = {} /\ RecheckAll
    \/ \E a \in AuditIds : AxeResolves(a)
    \/ InFlight(audits) = {} /\ RemoveSelectors({".hero"})

SpecClicks == InitClicks /\ [][NextClicks]_vars

\* audits under one retry that a change of the selectors overlaps or not:
\* '.hero' is added to and removed from the list while at most one audit
\* awaits the engine
StatesConfigs ==
    { UserConfig(sels, Undefined, Undefined, DefaultMaxRetries) :
        sels \in {<<".card-video">>, <<".card-video", ".hero">>} }

InitStates == InitWith(StatesConfigs)

NextStates ==
    \/ InFlight(audits) = {} /\ RecheckAll
    \/ \E a \in AuditIds : AxeResolves(a)
    \/ \E a \in AuditIds : AxeRejects(a)
    \/ \E a \in AuditIds : BackoffElapsed(a)
    \/ Cardinality(InFlight(audits)) <= 1 /\ AddSelectors(<<".hero">>)
    \/ Cardinality(InFlight(audits)) <= 1 /\ RemoveSelectors({".hero"})

SpecStates == InitStates /\ [][NextStates]_vars


\* the observer at work: audits under one retry, clearAll, clicks on badges,
\* mutations from outside, the clock; a fair engine and fair timers
QuietConfigs == { UserConfig(<<".card-video">>, Undefined, Undefined, DefaultMaxRetries) }

InitQuiet == InitWith(QuietConfigs)

NextQuiet ==
    \/ MutationBatch
    \/ Tick
    \/ \E t \in TimerIds : InFlight(audits) = {} /\ TimerFires(t)
    \/ \E a \in AuditIds : AxeResolves(a)
    \/ \E a \in AuditIds : AxeRejects(a)
    \/ \E a \in AuditIds : BackoffElapsed(a)
    \/ ClearAll
    \/ \E e \in Elems : BadgeClick(e)

SpecQuiet ==
    /\ InitQuiet
    /\ [][NextQuiet]_vars
    /\ WF_vars(Tick)
    /\ \A t \in TimerIds : WF_vars(InFlight(audits) = {} /\ TimerFires(t))
    /\ \A a \in AuditIds : WF_vars(AxeResolves(a) \/ AxeRejects(a))
    /\ \A a \in AuditIds : WF_vars(BackoffElapsed(a))

\* the observer's callback on batches of records, with audits that put the
\* outline on widgets and remove it
ObserverConfigs ==
    { UserConfig(sels, Undefined, Undefined, DefaultMaxRetries) :
        sels \in {<<".card-video">>, <<".hero">>} }

InitObserver == InitWith(ObserverConfigs)

NextObserver ==
    \/ ObserverCallback
    \/ Tick
    \/ \E t \in TimerIds : InFlight(audits) = {} /\ TimerFires(t)
    \/ \E a \in AuditIds : AxeResolves(a)
    \/ \E a \in AuditIds : AxeRejects(a)
    \/ \E a \in AuditIds : BackoffElapsed(a)

SpecObserver == InitObserver /\ [][NextObserver]_vars

\* audits one at a time with an engine that can fail, over every engine
\* result, with and without nested widgets
UnresolvedConfigs ==
    { UserConfig(sels, Undefined, Undefined, DefaultMaxRetries) :
        sels \in {<<".card-video">>, <<".card-video", ".hero">>} }

InitUnresolved == InitWith(UnresolvedConfigs)

NextUnresolved ==
    \/ InFlight(audits) = {} /\ RecheckAll
    \/ \E a \in AuditIds : AxeResolvesAny(a)
    \/ \E a \in AuditIds : AxeRejects(a)
    \/ \E a \in AuditIds : BackoffElapsed(a)

SpecUnresolved == InitUnresolved /\ [][NextUnresolved]_vars

\* watching switched on and off, with and without enableMutationObserver,
\* while mutations arrive and debounced audits run
WatchingConfigs ==
    { [UserConfig(<<".card-video">>, Undefined, Undefined, 0)
         EXCEPT !.enableMutationObserver = b] : b \in BOOLEAN }

InitWatching == InitWith(WatchingConfigs)

NextWatching ==
    \/ StartWatching
    \/ StopWatching
    \/ MutationBatch
    \/ Tick
    \/ \E t \in TimerIds : InFlight(audits) = {} /\ TimerFires(t)
    \/ \E a \in AuditIds : AxeResolves(a)

SpecWatching == InitWatching /\ [][NextWatching]_vars

(***************************************************************************)
(* Properties.                                                             *)
(***************************************************************************)
Matched == GetAllWidgets(config.widgetSelectors)

StoredState(e) == GetWidgetState(widgetCache[e])

Ids(violations) == [i \in DOMAIN violations |-> violations[i].id]

\* the UI of a widget that shows the violations vs (at least one)
ShowsViolations(e, vs) ==
    /\ ui[e].outline
    /\ Len(ui[e].badges) = 1
    /\ ui[e].badges[1].count = Len(vs)
    /\ ui[e].badges[1].noun = (IF Len(vs) = 1 THEN "issue" ELSE "issues")
    /\ Len(ui[e].popups) = 1
    /\ ui[e].popups[1].hidden
    /\ ui[e].popups[1].items = Ids(vs)

\* C1: when an audit that no other audit overlapped settles with a result of
\* the engine, every widget it matched to which k >= 1 violations are
\* attributed has the outline class, exactly one badge reading "k issue" (k = 1) or
\* "k issues", and exactly one popup, hidden, with one item per violation.
C1_MarkedAfterAudit ==
    (last.outcome = "ok" /\ ~last.overlapped) =>
        \A w \in last.widgets :
            LET vs == WidgetViolations(w, last.violations)
            IN  Len(vs) >= 1 => ShowsViolations(w, vs)

\* an audit has just marked one widget with "1 issue" and another with "2 issues"
C1_Witness ==
    /\ last.outcome = "ok" /\ ~last.overlapped
    /\ \E w1, w2 \in last.widgets :
          /\ Len(WidgetViolations(w1, last.violations)) = 1
          /\ Len(WidgetViolations(w2, last.violations)) = 2
          /\ ui[w1].badges[1].noun = "issue"
          /\ ui[w2].badges[1].noun = "issues"

\* C2: when an audit settles on an engine result with no violations, no widget
\* it matched has an outline class, a badge or a popup.
C2_CleanAfterEmptyResult ==
    (last.outcome = "ok" /\ last.violations = <<>>) =>
        /\ last.widgets # {}
        /\ \A w \in last.widgets : ui[w] = NoUI

\* an audit that overlapped another one settled on an empty result, after the
\* other audit had marked a widget of it
C2_Witness ==
    /\ last.outcome = "ok" /\ last.violations = <<>> /\ last.overlapped
    /\ Len(config.widgetSelectors) > 0
    /\ \A w \in last.widgets : w \in Matched /\ ui[w] = NoUI
    /\ InFlight(audits) = {}

\* C7: when a recheckAll call settles after the engine failed on every attempt,
\* every widget it resolved has no outline, badge or popup and a stored count
\* of 0, and the call does not reject.
C7_FailedAuditClears ==
    [][ last'.outcome = "failed" =>
          /\ rejected' = rejected
          /\ \A w \in last'.widgets :
                /\ ui'[w] = NoUI
                /\ GetWidgetState(widgetCache'[w]) =
                      [lastViolationCount |-> 0, hasUI |-> FALSE] ]_vars

\* an audit failed for good after an overlapping audit had marked its widgets
C7_Witness ==
    /\ last.outcome = "failed" /\ last.overlapped
    /\ last.calls = config.maxRetries + 1
    /\ last.calls >= 2
    /\ \A w \in last.widgets : ui[w] = NoUI /\ StoredState(w).lastViolationCount = 0

\* C9 as claimed: when a call of removeSelectors leaves elements that carried
\* a badge unmatched, the audit it started does not include them and, when it
\* settles, they carry no outline, badge or popup.
C9_DroppedWidgetsCleared ==
    (last.dropped # {} /\ last.outcome \in {"ok", "failed"}) =>
        \A e \in last.dropped : e \notin last.widgets /\ ui[e] = NoUI

\* C10: rendering a widget twice in a row with lists of the same length leaves
\* UI and stored state as the first call left them, whatever the lists hold,
\* and no element ever has more than one badge or more than one popup.
C10_RenderIdempotent ==
    /\ \A e \in Elems :
          /\ Len(ui[e].badges) <= 1
          /\ Len(ui[e].popups) <= 1
          /\ \A v1 \in SomeEngineResults :
                LET first == RenderWidgetUI(v1, ui[e], widgetCache[e])
                IN  \A v2 \in { v \in SomeEngineResults : Len(v) = Len(v1) } :
                        RenderWidgetUI(v2, first.ui, first.st) = first

\* the second of two overlapping audits found one violation on a widget that
\* the first had marked with another one: the widget still shows the first
C10_Witness ==
    /\ last.outcome = "ok"
    /\ \E w \in last.widgets :
          LET vs == WidgetViolations(w, last.violations)
          IN  /\ Len(vs) = 1
              /\ Len(ui[w].badges) = 1
              /\ Len(ui[w].popups) = 1
              /\ Len(ui[w].popups[1].items) = 1
              /\ ui[w].popups[1].items # Ids(vs)


\* C8: every audit in flight has called the engine at least once and at most
\* maxRetries + 1 times, with one 50 ms wait before every call but the first;
\* an audit that succeeds stops there, an audit that fails for good has called
\* the engine exactly maxRetries + 1 times; and every audit settles.
C8_CallsBounded ==
    /\ \A a \in InFlight(audits) :
          /\ audits[a].calls >= 1
          /\ audits[a].calls <= config.maxRetries + 1
          /\ audits[a].backoffs = audits[a].attempts
          /\ audits[a].pc = "awaiting" => audits[a].calls = audits[a].attempts + 1
          /\ audits[a].pc = "backoff" => audits[a].calls = audits[a].attempts
    /\ last.outcome = "ok" =>
          /\ last.calls >= 1 /\ last.calls <= config.maxRetries + 1
          /\ last.backoffs = last.calls - 1
    /\ last.outcome = "failed" =>
          /\ last.calls = config.maxRetries + 1
          /\ last.backoffs = config.maxRetries
    /\ last.outcome \in {"none", "ok", "failed"}

C8_RetryBounded ==
    /\ []C8_CallsBounded
    /\ \A a \in AuditIds : (audits[a].pc # "idle") ~> (audits[a].pc = "idle")

\* an audit succeeded on its last permitted attempt, after a wait
C8_Witness ==
    /\ last.outcome = "ok"
    /\ config.maxRetries >= 1
    /\ last.calls = config.maxRetries + 1
    /\ last.backoffs = config.maxRetries


\* the elements in the subtree of w, w included
Children(w) == { e \in Elems : Parent(e) = w }

Subtree(w) == {w} \cup Children(w) \cup UNION { Children(c) : c \in Children(w) }

\* some affected node of the violation resolves to an element inside w
HasNodeIn(violation, w) ==
    \E n \in DOMAIN violation.nodes :
        \E e \in Subtree(w) : ResolveNode(violation.nodes[n]) = e

\* the rule ids listed in the popup of e
ItemsShown(e) ==
    IF ui[e].popups = <<>> THEN {}
    ELSE { ui[e].popups[1].items[i] : i \in DOMAIN ui[e].popups[1].items }

\* C3: when an audit settles on an engine result, each widget of the audit
\* lists exactly the violations that have an affected node resolving to an
\* element inside the widget (the widget included).
C3_AttributedByContainment ==
    last.outcome = "ok" =>
        \A w \in last.widgets :
            \A i \in DOMAIN last.violations :
                HasNodeIn(last.violations[i], w) <=> last.violations[i].id \in ItemsShown(w)

\* one violation with nodes in A and in B is listed on both, another with a
\* node in A only is listed on A and not on B
C3_Witness ==
    /\ last.outcome = "ok"
    /\ {"A", "B"} \subseteq last.widgets
    /\ \E i, j \in DOMAIN last.violations :
          /\ Len(last.violations[i].nodes) = 2
          /\ ResolveNode(last.violations[i].nodes[1]) = "a1"
          /\ ResolveNode(last.violations[i].nodes[2]) = "b1"
          /\ last.violations[i].id \in ItemsShown("A") \cap ItemsShown("B")
          /\ ~HasNodeIn(last.violations[j], "B")
          /\ last.violations[j].id \in ItemsShown("A") \ ItemsShown("B")

NonEmpty(field) == field.defined /\ field.values # <<>>

\* C4: every engine call in flight carries a runOnly restriction of type
\* 'rule' with the axeRules values when axeRules is non-empty, of type 'tag'
\* with the axeTags values when axeRules is empty or absent and axeTags is
\* non-empty, and no restriction when both are empty or absent.
C4_RunOnlyFollowsConfig ==
    \A a \in AuditIds :
        audits[a].pc = "awaiting" =>
            LET r == audits[a].rulesAtCall
                t == audits[a].tagsAtCall
                o == audits[a].options
            IN  /\ NonEmpty(r) =>
                      o.present /\ o.type = "rule" /\ o.values = r.values
                /\ (~NonEmpty(r) /\ NonEmpty(t)) =>
                      o.present /\ o.type = "tag" /\ o.values = t.values
                /\ (~NonEmpty(r) /\ ~NonEmpty(t)) => ~o.present

\* a retried engine call under a configuration that sets rules and tags
C4_Witness ==
    \E a \in AuditIds :
        /\ audits[a].pc = "awaiting"
        /\ audits[a].calls = 2
        /\ NonEmpty(config.axeRules) /\ NonEmpty(config.axeTags)
        /\ audits[a].options.type = "rule"
        /\ audits[a].options.values = config.axeRules.values

\* C5: a run of N >= 1 debounceRecheck calls, each made before the delay of
\* the previous one has elapsed, starts recheckAll exactly once unless the
\* timer is cancelled by destroy: while its timer is pending no recheckAll
\* has started, once it is no longer pending exactly one has, and that one
\* did not start before the delay had elapsed since the last call.
C5_OneAuditPerRun ==
    (chain.calls >= 1 /\ ~chain.cancelled) =>
        /\ \/ Cardinality(Pending(timers)) = 1 /\ chain.fires = 0
           \/ Cardinality(Pending(timers)) = 0 /\ chain.fires = 1
        /\ ~chain.early
        /\ chain.fires = 1 => chain.since >= chain.delay

\* a run of three calls has started its one audit
C5_Witness ==
    /\ chain.calls = MaxChainCalls
    /\ ~chain.cancelled
    /\ chain.fires = 1
    /\ Pending(timers) = {}
    /\ InFlight(audits) # {}

\* C6: at most one debounce timer is pending, and it is the one
\* recheckTimeout refers to.
C6_OnePendingTimer ==
    /\ Cardinality(Pending(timers)) <= 1
    /\ Pending(timers) \subseteq {recheckTimeout}

\* a call has replaced the timer of the call before it
C6_Witness ==
    /\ chain.calls >= 2
    /\ chain.since = 0
    /\ Cardinality(Pending(timers)) = 1
    /\ timers[recheckTimeout] = chain.delay

HandlersOnDocument ==
    listeners.orphaned
      + Cardinality({ e \in Elems : listeners.attached[e] })
      + Cardinality({ e \in Elems : \E i \in DOMAIN stale[e].popups :
                                        stale[e].popups[i].handler })

\* C12: after destroy() has returned, none of the click listeners that the
\* validator put on the document for its popups is still attached.
C12_NoOutsideClickListenerLeft ==
    last.outcome = "destroyed" => HandlersOnDocument = 0

(***************************************************************************)
(* recheckAll when nothing matches.                                        *)
(***************************************************************************)
\* C13 as stated: a recheckAll call that finds no element matching the
\* selectors returns leaving the document (the UI on every element and the
\* stylesheet) and the widget state store as they were.
C13_NoMatchNoChange ==
    [][ last'.outcome = "empty" =>
          /\ ui' = ui
          /\ styleInjected' = styleInjected
          /\ widgetCache' = widgetCache ]_vars

\* C13, amended: a recheckAll call that finds no element matching the
\* selectors (also when the selector list is empty and the query throws) does
\* not invoke the engine and changes no element's outline, badge or popup, no
\* click handler and no entry of the widget state store; the stylesheet is in
\* the document afterwards, inserted by the call if it was absent.
C13_NoMatchOnlyStylesheet ==
    /\ [](\A a \in AuditIds : audits[a].pc # "idle" => audits[a].widgets # {})
    /\ [][ last'.outcome \in {"empty", "threw"} =>
             /\ ui' = ui
             /\ stale' = stale
             /\ listeners' = listeners
             /\ widgetCache' = widgetCache
             /\ audits' = audits
             /\ styleInjected' ]_vars

\* a recheckAll call has just returned for want of a match, on a document in
\* which an element that has stopped matching still carries a badge
C13_Witness ==
    /\ last.outcome = "empty"
    /\ \E e \in Elems : ui[e].badges # <<>>
    /\ styleInjected

(***************************************************************************)
(* getConfig and updateConfig.                                             *)
(***************************************************************************)
CallerPushes == \E s \in Selectors : CallerPushesSelector(s)

\* C14: the record getConfig() returned is a defensive copy: a change the
\* caller makes to its selector list does not change the configuration of the
\* validator, and nothing the validator does later (addSelectors,
\* updateConfig, ...) changes the selector list of the record.
C14_DefensiveCopy ==
    [][ /\ CallerPushes => config' = config
        /\ (returned.present /\ returned'.widgetSelectors # returned.widgetSelectors)
              => (CallerPushes \/ GetConfig) ]_vars

\* the value updateConfig gives a field that p carries: the value in p, and
\* for axeRules given as undefined the default (run all rules)
Given(p, k) ==
    IF k = "axeRules" /\ ~p[k].defined THEN DefaultAxeRules
    ELSE IF k = "cmsEvents" /\ ~p[k].defined THEN DefaultCmsEvents
    ELSE p[k]

\* the step has started an audit of the elements matching cfg's selectors,
\* whose first engine call was built from cfg's rules and tags
StartsAudit(cfg) ==
    \E a \in AuditIds :
        /\ audits[a].pc = "idle"
        /\ audits'[a].pc = "awaiting"
        /\ audits'[a].calls = 1
        /\ audits'[a].widgets = { e \in Elems : \E i \in DOMAIN cfg.widgetSelectors :
                                                  ElementMatches(e, cfg.widgetSelectors[i]) }
        /\ audits'[a].rulesAtCall = cfg.axeRules
        /\ audits'[a].tagsAtCall = cfg.axeTags

\* C15: updateConfig(p) leaves every field that p does not carry as it was,
\* gives every field that p carries the value from p, recomputes the class
\* names from the defaults and p's uiClasses when p carries uiClasses (and
\* leaves them alone otherwise), and then calls recheckAll with the new
\* configuration: an audit of the elements matching the new selectors starts
\* with the new rules and tags, or the call ends for want of a match.
C15_UpdateMerges ==
    [][ \A i \in DOMAIN Patches :
          LET p == Patches[i]
          IN  UpdateConfigWith(p) =>
                /\ \A k \in (DOMAIN config) \ (DOMAIN p) : config'[k] = config[k]
                /\ \A k \in DOMAIN p : config'[k] = Given(p, k)
                /\ IF "uiClasses" \in DOMAIN p
                     THEN \A key \in DOMAIN DefaultUIClasses :
                            uiClasses'[key] =
                              IF key \in DOMAIN p.uiClasses.values
                                THEN p.uiClasses.values[key]
                                ELSE DefaultUIClasses[key]
                     ELSE uiClasses' = uiClasses
                /\ \/ StartsAudit(config')
                   \/ last'.outcome \in {"empty", "threw"} ]_vars

\* an update has changed the popup class while a widget carried a popup, and
\* the audit it started awaits the engine under a tag filter
C15_Witness ==
    /\ uiClasses.POPUP = "my-popup"
    /\ \E e \in Elems : stale[e].popups # <<>>
    /\ \E a \in AuditIds : audits[a].pc = "awaiting" /\ audits[a].options.type = "tag"

\* the step has made an engine call, and every engine call it made carries
\* the restriction o
CallsEngineWith(o) ==
    /\ \E a \in AuditIds : audits'[a].calls > audits[a].calls
    /\ \A a \in AuditIds : audits'[a].calls > audits[a].calls => audits'[a].options = o

\* C16: from any prior configuration, updateConfig({axeRules: R}) with R not
\* empty starts an audit restricted to the rules R; updateConfig({axeRules:
\* undefined, axeTags: T}) with T not empty one restricted to the tags T;
\* updateConfig({axeRules: [], axeTags: undefined}) one with no restriction;
\* and every later engine call (a retry, a new audit) carries the restriction
\* of the rules and tags the configuration then holds.
C16_RuleModeSwitch ==
    [][ /\ UpdateConfigWith(RuleModePatches[1]) =>
              /\ CallsEngineWith([present |-> TRUE, type |-> "rule",
                                  values |-> <<"color-contrast", "image-alt">>])
              /\ config'.axeRules = Some(<<"color-contrast", "image-alt">>)
        /\ UpdateConfigWith(RuleModePatches[2]) =>
              /\ CallsEngineWith([present |-> TRUE, type |-> "tag",
                                  values |-> <<"wcag2aa">>])
              /\ config'.axeRules = Some(<<>>)
              /\ config'.axeTags = Some(<<"wcag2aa">>)
        /\ UpdateConfigWith(RuleModePatches[3]) =>
              /\ CallsEngineWith(NoRunOnly)
              /\ config'.axeRules = Some(<<>>)
              /\ config'.axeTags = Undefined
        /\ \A a \in AuditIds :
              audits'[a].calls > audits[a].calls =>
                audits'[a].options =
                  IF Len(config'.axeRules.values) > 0
                    THEN [present |-> TRUE, type |-> "rule", values |-> config'.axeRules.values]
                  ELSE IF Len(config'.axeTags.values) > 0
                    THEN [present |-> TRUE, type |-> "tag", values |-> config'.axeTags.values]
                  ELSE NoRunOnly ]_vars

\* a retry of an audit runs under the rules of the README's first update,
\* which override the tags the configuration still holds
C16_Witness ==
    /\ config.axeTags.defined /\ Len(config.axeTags.values) > 0
    /\ \E a \in AuditIds :
          /\ audits[a].pc = "awaiting"
          /\ audits[a].attempts >= 1
          /\ audits[a].options.values = <<"color-contrast", "image-alt">>

(***************************************************************************)
(* addSelectors and removeSelectors.                                       *)
(***************************************************************************)
\* the step called recheckAll under cfg before it returned, not through the
\* debounce timer: no timer was set, cancelled or fired, and an audit of the
\* elements matching cfg's selectors started, or the call ended for want of
\* a match (the selector list of cfg empty included)
AuditsAtOnce(cfg) ==
    /\ timers' = timers
    /\ recheckTimeout' = recheckTimeout
    /\ \/ StartsAudit(cfg)
       \/ last'.outcome \in {"empty", "threw"}

\* the number of places at which s occurs in the list sels
Occurrences(sels, s) == Cardinality({ i \in DOMAIN sels : sels[i] = s })

\* C17: addSelectors(S) appends S to the selector list, removeSelectors(S)
\* removes every occurrence of each selector of S and nothing else, and each
\* then audits at once, not through the debounce timer, the elements that
\* match the updated list; when that audit settles with a result, each
\* element it matched that has violations carries a badge.
C17_SelectorsReaudit ==
    /\ [][ /\ \A s \in Selectors :
                AddSelectors(<<s>>) =>
                  /\ config'.widgetSelectors = Append(config.widgetSelectors, s)
                  /\ AuditsAtOnce(config')
           /\ \A S \in SUBSET Selectors :
                RemoveSelectors(S) =>
                  /\ \A s \in Selectors :
                        Occurrences(config'.widgetSelectors, s) =
                          IF s \in S THEN 0 ELSE Occurrences(config.widgetSelectors, s)
                  /\ AuditsAtOnce(config') ]_vars
    /\ [](last.outcome = "ok" =>
            \A w \in last.widgets :
                Len(WidgetViolations(w, last.violations)) >= 1 => Len(ui[w].badges) = 1)

\* '.hero' was added to ['.card-video']; the audit that addSelectors started
\* has settled and marked the .hero element, while a debounce timer is pending
C17_Witness ==
    /\ last.outcome = "ok"
    /\ config.widgetSelectors = <<".card-video", ".hero">>
    /\ ui["N"].badges # <<>>
    /\ Pending(timers) # {}

(***************************************************************************)
(* The empty selector list.                                                *)
(***************************************************************************)
\* C18: with an empty selector list every operation finds no widget and does
\* nothing, silently: no call has thrown to its caller and no promise that
\* recheckAll returned has been rejected.
C18_EmptyListSilent ==
    Len(config.widgetSelectors) = 0 => ~rejected

(***************************************************************************)
(* The events the validator listens for.                                   *)
(***************************************************************************)
\* the step put the audit off by d ticks: the one pending timer is the one it
\* set, due in d ticks (a timer that was pending is cancelled), and no audit
\* started and no UI changed
Deferred(d) ==
    /\ Pending(timers') = {recheckTimeout'}
    /\ timers'[recheckTimeout'] = d
    /\ audits' = audits
    /\ ui' = ui

\* C19 as stated: a CMS event and the 'wa11y:recheck' event take the path of
\* a qualifying mutation: the audit is put off by the debounce timer, a
\* pending timer is replaced, and the delay is that of a mutation (the
\* configured debounceDelay); page teardown runs destroy().
C19_EventsDebounced ==
    [][ /\ (CmsEvent \/ RecheckEvent \/ DebounceRecheckWith(0))
            => Deferred(config.debounceDelay)
        /\ BeforeUnload => last'.outcome \in {"destroyed", "destroy threw"} ]_vars

\* C19, amended: a CMS event takes the debounced path with a delay of 500 ms
\* whatever the configured delay, a qualifying mutation takes it with the
\* configured debounceDelay, and in both a pending timer is replaced; the
\* 'wa11y:recheck' event calls recheckAll at once, setting and cancelling no
\* timer; page teardown runs destroy().
C19_EventPaths ==
    [][ /\ CmsEvent => Deferred(5)
        /\ DebounceRecheckWith(0) => Deferred(config.debounceDelay)
        /\ RecheckEvent =>
              /\ timers' = timers
              /\ recheckTimeout' = recheckTimeout
              /\ StartsAudit(config) \/ last'.outcome \in {"empty", "threw"}
        /\ BeforeUnload =>
              /\ last'.outcome = "destroyed"
              /\ ~mutationObserver'
              /\ Pending(timers') = {}
              /\ ~styleInjected' ]_vars

\* a CMS event has just set the timer (500 ms to go), and with the first
\* audit still awaiting the engine a 'wa11y:recheck' event has started another
C19_Witness ==
    /\ Cardinality(InFlight(audits)) = 2
    /\ recheckTimeout \in Pending(timers)
    /\ timers[recheckTimeout] = CmsEventDelay
    /\ chain.calls >= 2

(***************************************************************************)
(* Popups.                                                                 *)
(***************************************************************************)
\* the elements whose popup is in the document and visible
OpenPopups(u) == { e \in Elems : \E i \in DOMAIN u[e].popups : ~u[e].popups[i].hidden }

\* C20: at most one popup in the document is visible; a click on a badge
\* toggles the popup of that badge and leaves every other popup hidden, a
\* click on a close button hides its popup, and a click that reaches the
\* document outside a widget hides the popup of that widget.
C20_PopupsExclusive ==
    /\ [](Cardinality(OpenPopups(ui)) <= 1)
    /\ [][ /\ \A e \in Elems :
                BadgeClick(e) =>
                  /\ (e \in OpenPopups(ui')) = (e \notin OpenPopups(ui))
                  /\ OpenPopups(ui') \subseteq {e}
           /\ \A e \in Elems : CloseClick(e) => e \notin OpenPopups(ui')
           /\ \A target \in Elems :
                DocumentClick(target) =>
                  \A e \in Elems : ~Contains(e, target) => e \notin OpenPopups(ui') ]_vars

\* the popup of one widget is open when the badge of another is clicked: the
\* second popup is now the open one, and the badge of the first still says
\* expanded
C20_Witness ==
    /\ OpenPopups(ui) = {"B"}
    /\ ui["A"].popups # <<>>
    /\ ui["A"].badges[1].expanded

(***************************************************************************)
(* The widget state store.                                                 *)
(***************************************************************************)
\* the places of element e in a listing of getWidgetStates()
EntriesOf(r, e) == { i \in DOMAIN r.entries : r.entries[i].element = e }

\* the number of violations the call that has just settled attributed to e
Attributed(e) ==
    IF last.outcome = "ok" /\ e \in last.widgets
      THEN Len(WidgetViolations(e, last.violations))
      ELSE 0

\* C21: in the state in which an audit that no other audit overlapped has
\* settled, getWidgetStates() returns one entry for each element that matches
\* the selectors and none for any other; the count of an entry is the number
\* of violations the audit attributed to the element (0 when the audit failed
\* for good) and its hasUI says whether that count is positive.  Whatever the
\* selector list, a listing has one entry per matching element, and an element
\* the state store has no entry for reports count -1 and hasUI false.
C21_StatesAfterAudit ==
    /\ (last.outcome \in {"ok", "failed"} /\ ~last.overlapped) =>
          LET r == GetWidgetStates(config.widgetSelectors, widgetCache)
          IN  /\ ~r.threw
              /\ \A e \in Elems :
                    Cardinality(EntriesOf(r, e)) = (IF e \in Matched THEN 1 ELSE 0)
              /\ \A i \in DOMAIN r.entries :
                    /\ r.entries[i].state.lastViolationCount = Attributed(r.entries[i].element)
                    /\ r.entries[i].state.hasUI = (r.entries[i].state.lastViolationCount > 0)
    /\ \A sels \in SelectorLists(MaxSelectors) \ {<<>>} :
          LET r == GetWidgetStates(sels, widgetCache)
          IN  /\ \A e \in Elems :
                    Cardinality(EntriesOf(r, e)) = (IF IsTargetWidget(sels, e) THEN 1 ELSE 0)
              /\ \A i \in DOMAIN r.entries :
                    ~widgetCache[r.entries[i].element].set =>
                        r.entries[i].state = [lastViolationCount |-> -1, hasUI |-> FALSE]

\* an audit of A, N and B that nothing overlapped has settled on one violation
\* in a1: the listing is A, N, B in document order, A with one violation and
\* its UI, N and B with none; x has never been cleared or rendered
C21_Witness ==
    /\ last.outcome = "ok" /\ ~last.overlapped
    /\ LET r == GetWidgetStates(config.widgetSelectors, widgetCache)
       IN  /\ Len(r.entries) = 3
           /\ r.entries[1] = [ element |-> "A",
                               state |-> [lastViolationCount |-> 1, hasUI |-> TRUE] ]
           /\ r.entries[2] = [ element |-> "N",
                               state |-> [lastViolationCount |-> 0, hasUI |-> FALSE] ]
           /\ r.entries[3] = [ element |-> "B",
                               state |-> [lastViolationCount |-> 0, hasUI |-> FALSE] ]
    /\ ~widgetCache["x"].set

(***************************************************************************)
(* The observer and the validator's own writes.                            *)
(***************************************************************************)
\* what asks the validator for an audit from outside: a mutation batch, a CMS
\* event, the 'wa11y:recheck' event, a call of debounceRecheck or recheckAll
FromOutside == MutationBatch \/ CmsEvent \/ RecheckEvent \/ DebounceRecheck

\* no timer is pending and no audit is in flight
Quiet == Pending(timers) = {} /\ InFlight(audits) = {}

\* C22: a step in which the validator writes to the document (clearing,
\* rendering, opening and closing popups) sets no timer: a timer is set or
\* put off only by what comes from outside; and once nothing comes from
\* outside any more, the validator reaches a state with no pending timer and
\* no audit in flight and stays in it.
C22_OwnWritesInert ==
    /\ [][ (\E t \in TimerIds : timers'[t] > timers[t]) => FromOutside ]_vars
    /\ (<>[][~FromOutside]_vars) => <>[]Quiet

\* the validator is at rest with a badge it has put on a widget, after a
\* recheck that a mutation from outside had asked for
C22_Witness ==
    /\ Quiet
    /\ chain.fires = 1
    /\ last.outcome = "ok"
    /\ \E e \in Elems : ui[e].badges # <<>>

(***************************************************************************)
(* The observer's callback on a batch of records.                          *)
(***************************************************************************)
\* the record is on one of the validator's own UI elements (its target is a
\* badge or a popup or lies in one) or of them (one is added or removed)
OnOrOfOwnUI(m) ==
    \/ m.part \in {"badge", "popup"}
    \/ \E i \in DOMAIN m.nodes : m.nodes[i] \in {"badge", "popup"}

\* the target is a matched widget, contains one or lies inside one
NearWidget(e) == \E w \in Matched : Contains(e, w) \/ Contains(w, e)

\* a child-list record, or a change of an accessibility-relevant attribute
RelevantChange(m) ==
    \/ m.type = "childList"
    \/ /\ m.type = "attributes"
       /\ m.attributeName \in {"alt", "src", "href", "title", "aria-label",
                                "aria-labelledby", "role"}

\* after this step the validator's timer is pending with the whole debounce
\* delay ahead of it, as the latest call of the current run
Scheduled ==
    /\ recheckTimeout' \in Pending(timers')
    /\ timers'[recheckTimeout'] = config.debounceDelay
    /\ chain'.calls > 0 /\ chain'.since = 0

\* this step has left the timers alone
NotScheduled == timers' = timers /\ recheckTimeout' = recheckTimeout /\ chain' = chain

\* the records that ask for a re-audit
AskingRecords ==
    { m \in CallbackRecords :
        ~OnOrOfOwnUI(m) /\ NearWidget(m.target) /\ RelevantChange(m) }

\* C23: the callback on a batch schedules a debounced re-audit exactly when
\* the batch has a record that is not on or of the validator's own UI, whose
\* target is a widget, contains one or lies inside one, and that is a
\* child-list record or a change of an accessibility-relevant attribute
C23_BatchSchedules ==
    /\ [](LET qualifying == CallbackQualifying(config.widgetSelectors, ui)
               asking     == AskingRecords
           IN  \A mutations \in CallbackBatches :
                 ShouldRecheck(mutations, qualifying)
                   <=> \E i \in DOMAIN mutations : mutations[i] \in asking)
    /\ [][ \A shouldRecheck \in BOOLEAN :
              CallbackEnds(shouldRecheck) =>
                IF shouldRecheck THEN Scheduled ELSE NotScheduled ]_vars

\* a change on A, which contains the only widget N, has set the timer while N
\* carries the outline
C23_Witness ==
    /\ config.widgetSelectors = <<".hero">>
    /\ ui["N"].outline
    /\ recheckTimeout \in Pending(timers)
    /\ timers[recheckTimeout] = config.debounceDelay
    /\ chain.calls = 1

(***************************************************************************)
(* The audit cycle and the document.                                       *)
(***************************************************************************)
\* C24 as claimed: a recheckAll call clears all the UI there is before it
\* resolves the widgets and calls the engine, so when the call has reached
\* the engine no element of the document carries an outline, a badge or a
\* popup.
C24_ClearsAllThenResolves ==
    [][ InFlight(audits') \ InFlight(audits) # {} =>
          \A e \in Elems : ui'[e] = NoUI ]_vars

\* C25 as claimed: an audit writes to a widget only when its violation count
\* differs from the stored one.  When an audit begins with no other in flight,
\* then for every engine result that gives a widget the count stored for it,
\* neither the beginning of the audit nor its rendering of that result changes
\* what the widget carries.
C25_WritesOnlyWhereChanged ==
    [][ \A a \in InFlight(audits') \ InFlight(audits) :
          InFlight(audits) = {} =>
            \A w \in audits'[a].widgets :
              \A violations \in SomeEngineResults :
                Len(WidgetViolations(w, violations)) = StoredState(w).lastViolationCount =>
                  /\ ui'[w] = ui[w]
                  /\ RenderAll(ui', widgetCache', audits'[a].widgets, violations).ui[w] = ui[w] ]_vars

(***************************************************************************)
(* Violations and the widgets they are shown on.                           *)
(***************************************************************************)
\* the widgets whose popup lists the violation
ShownOn(violation) ==
    { w \in Elems : \E p \in DOMAIN ui[w].popups :
                        \E i \in DOMAIN ui[w].popups[p].items :
                            ui[w].popups[p].items[i] = violation.id }

\* the affected nodes of the violation that lie in w
NodesIn(violation, w) ==
    { n \in DOMAIN violation.nodes :
        /\ ResolveNode(violation.nodes[n]) # NoElem
        /\ Contains(w, ResolveNode(violation.nodes[n])) }

\* C26 as claimed: each affected-node descriptor attributes its violation to
\* at most one widget, so when an audit that nothing overlapped has settled a
\* violation is shown on at most as many widgets as it has descriptors.
C26_OneWidgetPerDescriptor ==
    (last.outcome = "ok" /\ ~last.overlapped) =>
        \A i \in DOMAIN last.violations :
            Cardinality(ShownOn(last.violations[i])) <= Len(last.violations[i].nodes)

\* C26: when an audit that nothing overlapped has settled, a violation is
\* shown on exactly the matched widgets that contain the element one of its
\* descriptors resolves to (a descriptor resolves to at most one element); two
\* widgets neither of which contains the other both show it only when two
\* different descriptors of it resolve to elements in the one and in the other.
C26_AttributedToContainingWidgets ==
    (last.outcome = "ok" /\ ~last.overlapped) =>
        \A i \in DOMAIN last.violations :
            LET violation == last.violations[i]
            IN  /\ \A w \in last.widgets :
                      w \in ShownOn(violation) <=> NodesIn(violation, w) # {}
                /\ \A w1, w2 \in ShownOn(violation) \cap last.widgets :
                      (~Contains(w1, w2) /\ ~Contains(w2, w1)) =>
                          \E n1 \in NodesIn(violation, w1), n2 \in NodesIn(violation, w2) :
                              n1 # n2

\* a violation with the one descriptor #N is shown on N and on A around it,
\* and not on B
C26_Witness ==
    /\ last.outcome = "ok" /\ ~last.overlapped
    /\ last.widgets = {"A", "N", "B"}
    /\ \E i \in DOMAIN last.violations :
          /\ last.violations[i].nodes = <<"#N">>
          /\ ShownOn(last.violations[i]) = {"A", "N"}

\* none of the descriptors of the violation resolves to an element
Unresolved(violation) ==
    \A n \in DOMAIN violation.nodes : ResolveNode(violation.nodes[n]) = NoElem

\* the engine result without the violations that resolve to no element
Resolved(violations) == SelectSeq(violations, LAMBDA violation : ~Unresolved(violation))

\* C27: when the engine resolves, the audit settles as successful on that
\* call, without another attempt, and leaves on every element the UI and the
\* stored state that the same result without its unresolved violations would
\* have left; no widget of the audit lists an unresolved violation.
C27_UnresolvedDropped ==
    [][ \A a \in AuditIds :
          (audits[a].pc = "awaiting" /\ last'.outcome = "ok" /\ audits'[a] # audits[a]) =>
            LET without == RenderAll(ui, widgetCache, audits[a].widgets,
                                     Resolved(last'.violations))
            IN  /\ audits'[a].pc = "idle"
                /\ last'.calls = audits[a].calls
                /\ last'.backoffs = audits[a].backoffs
                /\ ui' = without.ui
                /\ widgetCache' = without.cache
                /\ \A i \in DOMAIN last'.violations :
                      Unresolved(last'.violations[i]) =>
                        \A w \in audits[a].widgets :
                          \A p \in DOMAIN ui'[w].popups :
                            \A k \in DOMAIN ui'[w].popups[p].items :
                              ui'[w].popups[p].items[k] # last'.violations[i].id ]_vars

\* an audit has settled at its first engine call on a result of two
\* violations, one without a live element: A shows the other one alone
C27_Witness ==
    /\ last.outcome = "ok" /\ last.calls = 1
    /\ Len(last.violations) = 2
    /\ \E i \in DOMAIN last.violations : Unresolved(last.violations[i])
    /\ Len(ui["A"].badges) = 1
    /\ ui["A"].badges[1].count = 1
    /\ StoredState("A") = [lastViolationCount |-> 1, hasUI |-> TRUE]

(***************************************************************************)
(* Outline, badge and popup as one.                                        *)
(***************************************************************************)
\* C28: in every state, each element that matches the selectors carries
\* either the outline class, exactly one badge and exactly one popup, or none
\* of the three.
C28_PairedUI ==
    \A w \in Matched :
        \/ ui[w].outline /\ Len(ui[w].badges) = 1 /\ Len(ui[w].popups) = 1
        \/ ~ui[w].outline /\ ui[w].badges = <<>> /\ ui[w].popups = <<>>

\* while a later audit awaits the engine, an earlier one that it overlapped
\* has marked one widget and left another bare
C28_Witness ==
    /\ InFlight(audits) # {}
    /\ last.outcome = "ok" /\ last.overlapped
    /\ \E w1, w2 \in Matched :
          /\ ui[w1].outline /\ Len(ui[w1].badges) = 1 /\ Len(ui[w1].popups) = 1
          /\ ui[w2] = NoUI

(***************************************************************************)
(* Audits that overlap.                                                    *)
(***************************************************************************)
\* the stored state of w says what w carries: with UI, one badge with the
\* stored count and one popup with as many items; without, nothing and a
\* stored count of 0
StateAgreesWithUI(w) ==
    IF StoredState(w).hasUI
      THEN /\ ui[w].outline
           /\ Len(ui[w].badges) = 1
           /\ Len(ui[w].popups) = 1
           /\ StoredState(w).lastViolationCount > 0
           /\ ui[w].badges[1].count = StoredState(w).lastViolationCount
           /\ Len(ui[w].popups[1].items) = StoredState(w).lastViolationCount
      ELSE /\ ui[w] = NoUI
           /\ StoredState(w).lastViolationCount = 0

\* C29: whenever no audit is in flight, however the audits before overlapped,
\* every matched widget has at most one badge and at most one popup and its
\* stored count and hasUI agree with what it carries.
C29_SettledAuditsAgree ==
    InFlight(audits) = {} =>
        \A w \in Matched :
            /\ Len(ui[w].badges) <= 1
            /\ Len(ui[w].popups) <= 1
            /\ StateAgreesWithUI(w)

\* two audits overlapped and both have settled; the one that settled last
\* found as many violations in A as the other had rendered there, so A keeps
\* the popup of the other
C29_Witness ==
    /\ InFlight(audits) = {}
    /\ last.outcome = "ok" /\ last.overlapped
    /\ "A" \in Matched
    /\ StoredState("A") = [lastViolationCount |-> 1, hasUI |-> TRUE]
    /\ Len(WidgetViolations("A", last.violations)) = 1
    /\ ui["A"].popups[1].items # Ids(WidgetViolations("A", last.violations))

(***************************************************************************)
(* An audit that outlives destroy().                                       *)
(***************************************************************************)
\* an engine call of audit a resolves in this step, with no stylesheet in the
\* document
LateResolve(a) ==
    /\ audits[a].pc = "awaiting"
    /\ audits'[a] # audits[a]
    /\ last'.outcome = "ok"
    /\ ~styleInjected

\* C30 as claimed: destroy() leaves every audit in flight as it is; when the
\* engine call of such an audit resolves with no stylesheet in the document,
\* the stylesheet is still absent afterwards and what shows of every element
\* is what showed before.
C30_LateWriteInert ==
    [][ /\ last'.outcome = "destroyed" => audits' = audits /\ ~styleInjected'
        /\ \A a \in AuditIds :
              LateResolve(a) =>
                /\ ~styleInjected'
                /\ \A e \in Elems :
                      Displayed(ui'[e], styleInjected') = Displayed(ui[e], styleInjected) ]_vars

\* C30: destroy() leaves every audit in flight as it is; and when the engine
\* call of an audit resolves while the stylesheet is not in the document,
\* each widget of the audit with violations gets the outline class, a badge
\* with their number and a popup, and the stylesheet is still not in the
\* document afterwards: the outline does not show, the badge does, the popup
\* is hidden.
C30_StaleAuditWritesAfterDestroy ==
    [][ /\ last'.outcome = "destroyed" => audits' = audits /\ ~styleInjected'
        /\ \A a \in AuditIds :
              LateResolve(a) =>
                  /\ ~styleInjected'
                  /\ \A w \in audits[a].widgets :
                        LET vs == WidgetViolations(w, last'.violations)
                        IN  IF Len(vs) > 0
                              THEN /\ ui'[w].outline
                                   /\ Len(ui'[w].badges) = 1
                                   /\ ui'[w].badges[1].count = Len(vs)
                                   /\ Len(ui'[w].popups) = 1
                                   /\ Displayed(ui'[w], styleInjected') =
                                        [outline |-> FALSE, badges |-> 1, popups |-> 0]
                              ELSE ui'[w] = NoUI ]_vars

\* after destroy() an audit it did not cancel has settled: the observer is
\* gone, no timer is pending, the stylesheet is not in the document, and A
\* carries outline, badge and popup
C30_Witness ==
    /\ last.outcome = "ok"
    /\ ~styleInjected
    /\ ~mutationObserver
    /\ Pending(timers) = {}
    /\ InFlight(audits) = {}
    /\ ui["A"].outline /\ Len(ui["A"].badges) = 1 /\ Len(ui["A"].popups) = 1

(***************************************************************************)
(* Watching.                                                               *)
(***************************************************************************)
\* C31: the validator never has more than one observer connected, and has
\* one exactly when its field holds one; startWatching changes nothing when
\* the field holds an observer or enableMutationObserver is false;
\* stopWatching leaves no observer connected and none in the field; and while
\* the field holds none, no batch of mutations reaches a callback of the
\* validator, so none sets the debounce timer.
C31_OneObserver ==
    /\ [](observers = IF mutationObserver THEN 1 ELSE 0)
    /\ [][ /\ (StartWatching /\ (mutationObserver \/ ~config.enableMutationObserver)) =>
                UNCHANGED << mutationObserver, observers, timers, recheckTimeout >>
           /\ StopWatching => ~mutationObserver' /\ observers' = 0
           /\ MutationBatch => mutationObserver ]_vars

\* stopWatching has disconnected the observer that start() had connected,
\* while the timer a batch of mutations set before is still pending
C31_Witness ==
    /\ config.enableMutationObserver
    /\ ~mutationObserver /\ observers = 0
    /\ recheckTimeout \in Pending(timers)
    /\ chain.calls >= 1

(***************************************************************************)
(* The stylesheet the instances share.                                     *)
(***************************************************************************)
\* the default '.card-video' instance at work while another instance of the
\* class is destroyed
SharedConfigs == { UserConfig(<<".card-video">>, Undefined, Undefined, DefaultMaxRetries) }

InitShared == InitWith(SharedConfigs)

NextShared ==
    \/ InFlight(audits) = {} /\ RecheckAll
    \/ \E a \in AuditIds : AxeResolves(a)
    \/ \E a \in AuditIds : AxeRejects(a)
    \/ \E a \in AuditIds : BackoffElapsed(a)
    \/ \E e \in Elems : BadgeClick(e)
    \/ DestroyOfAnother

SpecShared == InitShared /\ [][NextShared]_vars

\* C32 as claimed: the destroy() of another instance never leaves the badges
\* and popups of a validator that is still live without the stylesheet.
C32_StylesheetKeptForLive ==
    (\E e \in Elems : ui[e].badges # <<>> \/ ui[e].popups # <<>>) => styleInjected

(***************************************************************************)
(* After destroy().                                                        *)
(***************************************************************************)
\* C33 as claimed: once destroy() has removed the stylesheet and no audit is
\* in flight, no step of the page's events (mutations, CMS events,
\* 'wa11y:recheck', timers) starts an audit, puts the stylesheet back or adds
\* a badge or a popup.
C33_InertAfterDestroy ==
    [][ (~styleInjected /\ InFlight(audits) = {}) =>
          /\ InFlight(audits') = {}
          /\ ~styleInjected'
          /\ \A e \in Elems : /\ Len(ui'[e].badges) <= Len(ui[e].badges)
                               /\ Len(ui'[e].popups) <= Len(ui[e].popups) ]_vars

(***************************************************************************)
(* Which of two overlapping audits the widgets show.                       *)
(***************************************************************************)
\* the popup of a widget with UI u lists the violations vs, or vs is empty and
\* the widget carries nothing
ShowsResult(u, vs) ==
    IF vs = <<>>
      THEN u.badges = <<>> /\ u.popups = <<>>
      ELSE /\ Len(u.badges) = 1 /\ u.badges[1].count = Len(vs)
           /\ Len(u.popups) = 1 /\ u.popups[1].items = Ids(vs)

\* two audits at most, the later one always in the second slot: recheckAll is
\* called with no audit in flight, or while the audit of the first slot is
\* the only one in flight
RaceConfigs ==
    { UserConfig(<<".card-video">>, Undefined, Undefined, m) : m \in 0..MaxRetriesBound }

FirstAudit == 1

InitRace == InitWith(RaceConfigs)

NextRace ==
    \/ InFlight(audits) \subseteq {FirstAudit} /\ RecheckAll
    \/ \E a \in AuditIds : AxeResolves(a)
    \/ \E a \in AuditIds : AxeRejects(a)
    \/ \E a \in AuditIds : BackoffElapsed(a)

SpecRace == InitRace /\ [][NextRace]_vars

\* C34 as claimed: an audit was started while the first was awaiting the
\* engine and its engine call has resolved before the first one's; when the
\* engine call of the first audit resolves in turn, every widget still shows
\* the violations of the audit that started last.
C34_LastStartedWins ==
    [][ ( /\ last.outcome = "ok" /\ last.overlapped
          /\ InFlight(audits) = {FirstAudit}
          /\ audits[FirstAudit].pc = "awaiting"
          /\ audits'[FirstAudit].pc = "idle" /\ last'.outcome = "ok" )
        => \A w \in last.widgets :
              ShowsResult(ui'[w], WidgetViolations(w, last.violations)) ]_vars

(***************************************************************************)
(* UI under class names that updateConfig has replaced.                    *)
(***************************************************************************)
\* C35 as claimed: once the audit that follows an update of the class names
\* has settled, no matched widget carries an outline class, a badge or a popup
\* under earlier class names, and none has more than one badge or more than
\* one popup in all.
C35_NothingUnderOldNames ==
    InFlight(audits) = {} =>
        \A w \in Matched :
            /\ stale[w] = NoStale
            /\ Len(ui[w].badges) + Len(stale[w].badges) <= 1
            /\ Len(ui[w].popups) + Len(stale[w].popups) <= 1

(***************************************************************************)
(* aria-expanded of a badge and the visibility of its popup.               *)
(***************************************************************************)
\* C36 as claimed: on every element that carries a badge and a popup, the
\* badge says expanded exactly when the popup is not hidden.
C36_ExpandedIffVisible ==
    \A e \in Elems :
        (Len(ui[e].badges) = 1 /\ Len(ui[e].popups) = 1) =>
            (ui[e].badges[1].expanded <=> ~ui[e].popups[1].hidden)

(***************************************************************************)
(* The stored state of an element.                                         *)
(***************************************************************************)
\* the widgets the step clears (an audit starts) or renders (an audit settles)
ClearedOrRendered ==
    UNION { audits'[a].widgets : a \in InFlight(audits') \ InFlight(audits) }
      \cup UNION { audits[a].widgets : a \in InFlight(audits) \ InFlight(audits') }

\* C37: in every state the stored state of every element has hasUI =
\* (lastViolationCount > 0) and lastViolationCount >= -1; the count is -1 only
\* for an element without an entry, an element that is cleared or rendered has
\* a count of 0 or more from then on.
C37_StoredStateWellFormed ==
    /\ [](\A e \in Elems :
            /\ StoredState(e).hasUI = (StoredState(e).lastViolationCount > 0)
            /\ StoredState(e).lastViolationCount >= -1
            /\ StoredState(e).lastViolationCount = -1 => ~widgetCache[e].set)
    /\ [][\A e \in Elems :
            /\ e \in ClearedOrRendered => StoredState(e)'.lastViolationCount >= 0
            /\ StoredState(e).lastViolationCount >= 0 =>
                  StoredState(e)'.lastViolationCount >= 0 ]_vars

\* N was never a widget and has no entry, A has been rendered with one
\* violation, B has been cleared
C37_Witness ==
    /\ InFlight(audits) = {}
    /\ StoredState("N") = [lastViolationCount |-> -1, hasUI |-> FALSE]
    /\ StoredState("A") = [lastViolationCount |-> 1, hasUI |-> TRUE]
    /\ StoredState("B") = [lastViolationCount |-> 0, hasUI |-> FALSE]
    /\ widgetCache["B"].set

(***************************************************************************)
(* The CMS events the validator listens for.                               *)
(***************************************************************************)
\* event names: two of the defaults, one of the user's
EventNames == {"sf:contentSaved", "sf:widgetUpdated", "my:saved"}

\* updates of cmsEvents: one name of the user's, none, the defaults again
CmsPatches ==
    << [cmsEvents |-> Some(<<"my:saved">>)],
       [cmsEvents |-> Some(<<>>)],
       [cmsEvents |-> Undefined] >>

\* validators made with the default events or with one of the user's
CmsConfigs ==
    { [UserConfig(<<".card-video">>, Undefined, Undefined, 0) EXCEPT !.cmsEvents = ev] :
        ev \in {Undefined, Some(<<"my:saved">>)} }

InitCms == InitWith(CmsConfigs)

NextCms ==
    \/ \E name \in EventNames : DispatchEvent(name)
    \/ \E i \in DOMAIN CmsPatches : InFlight(audits) = {} /\ UpdateConfigWith(CmsPatches[i])
    \/ Tick
    \/ \E t \in TimerIds : InFlight(audits) = {} /\ TimerFires(t)
    \/ \E a \in AuditIds : AxeResolves(a)

SpecCms == InitCms /\ [][NextCms]_vars

\* the names in the cmsEvents list of the configuration
ConfiguredEvents == { config.cmsEvents.values[i] : i \in DOMAIN config.cmsEvents.values }

\* C38 as claimed: in every state, the dispatch of an event schedules a
\* re-audit 500 ms later when its name is in the cmsEvents list of the current
\* configuration, and changes no timer when it is not.
C38_ListensForConfigured ==
    [][ \A name \in EventNames :
          DispatchEvent(name) =>
            IF name \in ConfiguredEvents
              THEN /\ recheckTimeout' \in Pending(timers')
                   /\ timers'[recheckTimeout'] = CmsEventDelay
              ELSE UNCHANGED << timers, recheckTimeout >> ]_vars

=============================================================================
